---- MODULE Spec2Model ----
(***************************************************************************)
(* A model of andranikuz/botkit: the router (routing/router.go), the route *)
(* patterns (routing/pattern.go), the security rule and the rate limiter   *)
(* (routing/security.go) and the middleware chain (middleware/core.go).    *)
(*                                                                         *)
(* Strings are sequences of one-character strings.  A route is identified  *)
(* by its index in Router.routes (the list is only appended to; sorting    *)
(* works on a copy).  A middleware carries the number of its registration  *)
(* because Router.middlewares is sorted in place.                          *)
(***************************************************************************)
EXTENDS Integers, Sequences, FiniteSets, TLC

VARIABLES
    modules,      \* Router.modules: the registered module names
    routes,       \* Router.routes: the registered route patterns, in registration order
    middlewares,  \* Router.middlewares: kept sorted by RegisterMiddleware
    mwRegs,       \* how many RegisterMiddleware calls were made
    lastCall,     \* the last Route call: its context, what it did, its outcome
    handlerRuns,  \* per route: handler executions at the current instant
    config,       \* RateLimiter.config: Requests and Window
    counters,     \* RateLimiter.counters: key -> counter
    mu,           \* RateLimiter.mu: the goroutine holding it, or NoOwner
    now,          \* the clock time.Now() reads
    pc,           \* per goroutine: its position inside Allow
    local,        \* per goroutine: Allow's locals (key, time read, result)
    calls,        \* per key: the Allow calls that returned, in order: time, result
    lastOp,       \* the last Reset or GetLimit and what it returned
    started,      \* Router.started
    wildcards,    \* Router.wildcards: kept sorted by RegisterWildcard
    rmu,          \* Router.mu: the goroutine holding the write lock, or NoOwner
    rpc,          \* per goroutine: its position in a Router call, and the call's context
    subscribers,  \* EventBus.subscribers: topic -> slice (backing array and length)
    subRegs,      \* how many subscriptions were made
    busStarted,   \* EventBus.started
    pub,          \* the Publish call in progress: its local slice, position, errors
    pubDone,      \* the Publish call that just returned and what it did
    queue,        \* EventBus.queue: the buffered events and whether it is closed
    workers,      \* per worker goroutine: its position in worker() and its event
    bctl,         \* EventBus.workers, the state of EventBus.ctx, EventBus.mu, Stop's wait
    alog          \* what PublishAsync, the workers and Stop did so far

lifeVars == <<started, wildcards, rmu, rpc>>
routerVars == <<modules, routes, middlewares, mwRegs, lastCall, handlerRuns,
                started, wildcards, rmu, rpc>>
limiterVars == <<config, counters, mu, now, pc, local, calls, lastOp>>
asyncVars == <<queue, workers, bctl, alog>>
busVars == <<subscribers, subRegs, busStarted, pub, pubDone, queue, workers, bctl, alog>>
vars == <<modules, routes, middlewares, mwRegs, lastCall, handlerRuns,
          config, counters, mu, now, pc, local, calls, lastOp,
          started, wildcards, rmu, rpc,
          subscribers, subRegs, busStarted, pub, pubDone,
          queue, workers, bctl, alog>>

----------------------------------------------------------------------------
(* Bounds and input domains *)

MaxRoutes == 3
MaxMw == 3
MaxRuns == 3
MaxRequests == 2
MaxWindow == 1
MaxTime == 2
MaxCalls == 4
NumProcs == 2
MaxSubs == 5
QueueCap == 2
MaxWorkers == 2
MaxAsync == 3
MaxText == 4

\* No goroutine: the owner of a mutex nobody holds (goroutines are 1, 2, ...).
NoOwner == 0

\* Route priorities: 50 is NewRoute's default, 90 a raised one.
Prios == {50, 90}
ModuleNames == 1..MaxRoutes
Patterns == {<<"a">>, <<"b">>}
RouteTypes == {"command", "message"}

----------------------------------------------------------------------------
(* Strings *)

ToLowerChar(c) ==
    CASE c = "A" -> "a"
      [] c = "B" -> "b"
      [] OTHER -> c

ToLower(s) == [i \in 1..Len(s) |-> ToLowerChar(s[i])]

IsSpace(c) == c = " "

RECURSIVE TrimLeft(_)
TrimLeft(s) ==
    IF s # << >> /\ IsSpace(Head(s)) THEN TrimLeft(Tail(s)) ELSE s

RECURSIVE TrimRight(_)
TrimRight(s) ==
    IF s # << >> /\ IsSpace(s[Len(s)])
    THEN TrimRight(SubSeq(s, 1, Len(s) - 1))
    ELSE s

TrimSpace(s) == TrimRight(TrimLeft(s))

----------------------------------------------------------------------------
(* Route patterns (routing/pattern.go) *)

\* regexp.QuoteMeta: each character with a meaning in expressions is
\* preceded by a backslash; braces are among them.
MetaChars == {"\\", ".", "+", "*", "?", "(", ")", "|", "[", "]", "{", "}", "^", "$"}

\* One character of the text of an expression.
Chr(c) == [kind |-> "chr", name |-> "", class |-> "", c |-> c]
Chrs(s) == [k \in 1..Len(s) |-> Chr(s[k])]

RECURSIVE QuoteMeta(_)
QuoteMeta(s) ==
    IF s = << >> THEN << >>
    ELSE (IF Head(s) \in MetaChars THEN <<Chr("\\"), Chr(Head(s))>> ELSE <<Chr(Head(s))>>)
         \o QuoteMeta(Tail(s))

\* The character classes of the capture groups.
Digits == {"4", "2"}
WordChars == Digits \cup {"a", "b", "A", "B", "i", "d", "n", "m", "e", "_"}
InClass(c, class) ==
    CASE class = "digits" -> c \in Digits
      [] class = "word" -> c \in WordChars
      [] OTHER -> TRUE

\* A capture group (?P<name>...) as one element of an expression.
Group(name, class) == [kind |-> "group", name |-> name, class |-> class, c |-> ""]
Lit(c) == [kind |-> "lit", name |-> "", class |-> "", c |-> c]

\* patternToRegex's table: the expression replaced (it matches the text
\* "{id}", a brace directly followed by the name and a brace) and the group
\* put in its place.
Replacements ==
    <<[old |-> Chrs(<<"{", "i", "d", "}">>), new |-> Group("id", "digits")],
      [old |-> Chrs(<<"{", "n", "a", "m", "e", "}">>), new |-> Group("name", "word")],
      [old |-> Chrs(<<"{", "a", "n", "y", "}">>), new |-> Group("any", "any")]>>

IsPrefix(pre, s) == Len(pre) <= Len(s) /\ SubSeq(s, 1, Len(pre)) = pre

\* regexp.MustCompile(old).ReplaceAllString(pattern, new)
RECURSIVE ReplaceAll(_, _, _)
ReplaceAll(s, old, new) ==
    IF s = << >> THEN << >>
    ELSE IF IsPrefix(old, s)
    THEN <<new>> \o ReplaceAll(SubSeq(s, Len(old) + 1, Len(s)), old, new)
    ELSE <<Head(s)>> \o ReplaceAll(Tail(s), old, new)

RECURSIVE ReplaceEach(_, _)
ReplaceEach(s, k) ==
    IF k > Len(Replacements) THEN s
    ELSE ReplaceEach(ReplaceAll(s, Replacements[k].old, Replacements[k].new), k + 1)

\* regexp.Compile of the text between the anchors: a backslash makes the
\* next character a literal, a group stays a group.
RECURSIVE ParseRegex(_)
ParseRegex(s) ==
    IF s = << >> THEN << >>
    ELSE IF Head(s) = Chr("\\") /\ Len(s) >= 2
    THEN <<Lit(s[2].c)>> \o ParseRegex(SubSeq(s, 3, Len(s)))
    ELSE IF Head(s).kind = "group"
    THEN <<Head(s)>> \o ParseRegex(Tail(s))
    ELSE <<Lit(Head(s).c)>> \o ParseRegex(Tail(s))

\* patternToRegex: quote first, then replace the placeholders, then anchor.
patternToRegex(pattern) == ReplaceEach(QuoteMeta(pattern), 1)

\* Compile: "*" compiles to the expression ".*"; any other pattern goes
\* through patternToRegex and is anchored at both ends.
CompileOne(pattern) ==
    IF pattern = <<"*">>
    THEN [kind |-> "any", toks |-> << >>]
    ELSE [kind |-> "re", toks |-> ParseRegex(patternToRegex(pattern))]

Compile(patterns) == [i \in 1..Len(patterns) |-> CompileOne(patterns[i])]

NoMatch == [ok |-> FALSE, groups |-> << >>]

\* The longest prefix of text made of characters of the class.
RECURSIVE MaxRun(_, _)
MaxRun(class, text) ==
    IF text # << >> /\ InClass(Head(text), class) THEN 1 + MaxRun(class, Tail(text)) ELSE 0

\* The anchored expression against the text: a group takes as many
\* characters as it can and gives back one at a time.
RECURSIVE MatchFrom(_, _, _)
RECURSIVE TryGroup(_, _, _, _)
MatchFrom(toks, text, groups) ==
    IF toks = << >> THEN [ok |-> text = << >>, groups |-> groups]
    ELSE IF Head(toks).kind = "lit"
    THEN IF text # << >> /\ Head(text) = Head(toks).c
         THEN MatchFrom(Tail(toks), Tail(text), groups)
         ELSE NoMatch
    ELSE TryGroup(toks, text, groups, MaxRun(Head(toks).class, text))

TryGroup(toks, text, groups, k) ==
    IF k < 1 THEN NoMatch
    ELSE LET r == MatchFrom(Tail(toks), SubSeq(text, k + 1, Len(text)),
                            Append(groups, <<Head(toks).name, SubSeq(text, 1, k)>>))
         IN  IF r.ok THEN r ELSE TryGroup(toks, text, groups, k - 1)

\* re.FindStringSubmatch(text): nil, or the groups' texts.
FindStringSubmatch(re, text) ==
    IF re.kind = "any" THEN [ok |-> TRUE, groups |-> << >>]
    ELSE LET r == MatchFrom(re.toks, text, << >>)
         IN  IF r.ok THEN r ELSE NoMatch

ReMatches(re, text) == FindStringSubmatch(re, text).ok

\* string(rune('0' + i)) for the groups an expression here can have.
PosKey(k) == IF k = 1 THEN "1" ELSE "2"

\* The parameter map of a match: empty without groups; otherwise each group
\* under its name and under its number, and the pattern under "_pattern".
Params(m, pattern) ==
    IF m.groups = << >> THEN {}
    ELSE {m.groups[k] : k \in DOMAIN m.groups}
         \cup {<<PosKey(k), m.groups[k][2]>> : k \in DOMAIN m.groups}
         \cup {<<"_pattern", pattern>>}

\* Match's loop over the compiled expressions from position i on: the first
\* expression that matches decides and its groups become the parameters.
RECURSIVE MatchEach(_, _, _, _)
MatchEach(compiled, patterns, t, i) ==
    IF i > Len(compiled) THEN [matched |-> FALSE, params |-> {}]
    ELSE IF ReMatches(compiled[i], t)
    THEN [matched |-> TRUE,
          params |-> UNION {Params(m, IF i <= Len(patterns) THEN patterns[i] ELSE << >>) :
                              m \in {FindStringSubmatch(compiled[i], t)}}]
    ELSE MatchEach(compiled, patterns, t, i + 1)

\* Match: the input is lower-cased and trimmed, the pattern is not; an empty
\* list of compiled expressions is compiled first; the first compiled
\* expression that matches decides.
Match(route, text) ==
    MatchEach(IF Len(route.compiled) = 0 THEN Compile(route.patterns) ELSE route.compiled,
              route.patterns, TrimSpace(ToLower(text)), 1)

MatchType(route, ctx) ==
    CASE route.type = "command" -> ctx.kind = "command"
      [] route.type = "callback" -> ctx.kind = "callback"
      [] route.type = "message" -> ctx.kind = "message"
      [] route.type \in {"regex", "wildcard"} -> TRUE
      [] OTHER -> FALSE

----------------------------------------------------------------------------
(* Security rule (routing/security.go) *)

\* A nil *RateLimitConfig
NoRateLimit == [set |-> FALSE, Requests |-> 0, Window |-> 0]

\* SecurityRule{}: nothing required.  RequirePermissions is a list (its
\* order decides which missing permission is named).  Validate is "nil" for
\* no ValidateFunc, else what the function answers: "ok" or "fail".
\* OnFailure is "nil" or "custom" (a handler of the route's own).
NoRule ==
    [RequireAuth |-> FALSE, RequireProfile |-> FALSE, RequireRoles |-> {},
     RequirePermissions |-> << >>, AllowedSources |-> {}, Validate |-> "nil",
     OnFailure |-> "nil", RateLimit |-> NoRateLimit]

\* RouteBuilder.RateLimit(requests, window) on a rule
WithRateLimit(rule, requests, window) ==
    [rule EXCEPT !.RateLimit = [set |-> TRUE, Requests |-> requests, Window |-> window]]

\* RouteBuilder.RequireAuth() on a rule
WithRequireAuth(rule) == [rule EXCEPT !.RequireAuth = TRUE]

\* An error value: the sentinel it is (errors.Is) and the detail wrapped
\* around it by fmt.Errorf("%w: %s", ...); NilErr is the nil error.
Err(reason, detail) == [reason |-> reason, detail |-> detail]
NilErr == Err("nil", "")

\* err.Error(): the sentinel's text, then the detail.  A ValidateFunc's error
\* is the validator's own; its text is whatever the validator wrote.
ErrorText(err) ==
    CASE err.reason = "ErrNotAuthenticated" -> <<"authentication required", err.detail>>
      [] err.reason = "ErrProfileRequired" -> <<"profile required", err.detail>>
      [] err.reason = "ErrInsufficientRole" -> <<"insufficient role", err.detail>>
      [] err.reason = "ErrInsufficientPermission" -> <<"insufficient permission", err.detail>>
      [] err.reason = "ErrSourceNotAllowed" -> <<"source not allowed", err.detail>>
      [] err.reason = "ErrRateLimitExceeded" -> <<"rate limit exceeded", err.detail>>
      [] OTHER -> <<"validator error", err.detail>>

\* The first required permission, in list order, the context lacks; "" if none.
RECURSIVE FirstMissing(_, _, _)
FirstMissing(perms, i, ctx) ==
    IF i > Len(perms) THEN ""
    ELSE IF perms[i] \notin ctx.perms THEN perms[i]
    ELSE FirstMissing(perms, i + 1, ctx)

\* Check with the source condition moved to the front.
CheckSourceFirst(rule, ctx) ==
    IF rule.AllowedSources # {} /\ ctx.source \notin rule.AllowedSources
    THEN Err("ErrSourceNotAllowed", ctx.source)
    ELSE IF rule.RequireAuth /\ ~ctx.auth THEN Err("ErrNotAuthenticated", "")
    ELSE IF rule.RequireProfile /\ ~ctx.profile THEN Err("ErrProfileRequired", "")
    ELSE IF rule.RequireRoles # {} /\ rule.RequireRoles \cap ctx.roles = {}
         THEN Err("ErrInsufficientRole", "")
    ELSE IF FirstMissing(rule.RequirePermissions, 1, ctx) # ""
         THEN Err("ErrInsufficientPermission", FirstMissing(rule.RequirePermissions, 1, ctx))
    ELSE IF rule.Validate = "fail" THEN Err("validator", "")
    ELSE NilErr

\* Check: the first failing condition, NilErr for nil.  The RateLimit field
\* of the rule is not read.
Check(rule, ctx) ==
    IF rule.RequireAuth /\ ~ctx.auth THEN Err("ErrNotAuthenticated", "")
    ELSE IF rule.RequireProfile /\ ~ctx.profile THEN Err("ErrProfileRequired", "")
    ELSE IF rule.RequireRoles # {} /\ rule.RequireRoles \cap ctx.roles = {}
         THEN Err("ErrInsufficientRole", "")
    ELSE IF FirstMissing(rule.RequirePermissions, 1, ctx) # ""
         THEN Err("ErrInsufficientPermission", FirstMissing(rule.RequirePermissions, 1, ctx))
    ELSE IF rule.AllowedSources # {} /\ ctx.source \notin rule.AllowedSources
         THEN Err("ErrSourceNotAllowed", ctx.source)
    ELSE IF rule.Validate = "fail" THEN Err("validator", "")
    ELSE NilErr

----------------------------------------------------------------------------
(* Responses and trace events *)

Resp(kind, arg) == [kind |-> kind, arg |-> arg]
Panic == Resp("panic", 0)
Silent == Resp("silent", 0)
Recovered == Resp("recovered", 0)

Ev(tag, arg) == <<tag, arg>>

\* core.NewMessage(text): the text is a list of parts.
NewMessage(text) == Resp("message", text)

\* defaultSecurityFailureHandler: one fixed message per sentinel; any other
\* error is formatted into the message.
defaultSecurityFailureHandler(ctx, err) ==
    CASE err.reason = "ErrNotAuthenticated" -> NewMessage(<<"authorization is required">>)
      [] err.reason = "ErrProfileRequired" -> NewMessage(<<"registration is required">>)
      [] err.reason = "ErrInsufficientRole" -> NewMessage(<<"not enough rights for the action">>)
      [] err.reason = "ErrInsufficientPermission" -> NewMessage(<<"no access to this function">>)
      [] err.reason = "ErrSourceNotAllowed" -> NewMessage(<<"action unavailable from this source">>)
      [] err.reason = "ErrRateLimitExceeded" -> NewMessage(<<"too many requests">>)
      [] OTHER -> NewMessage(<<"security error: ">> \o ErrorText(err))

\* HandleFailure: the rule's OnFailure handler if set, else the default.
HandleFailure(rule, ctx, err) ==
    IF rule.OnFailure # "nil"
    THEN Resp("onfailure", err.reason)
    ELSE defaultSecurityFailureHandler(ctx, err)

\* Execute running the handler whatever the check says.
ExecuteUnchecked(route, idx, ctx, hout) ==
    [trace |-> <<Ev("check", idx), Ev("handler", idx)>>, resp |-> Resp("handler", idx)]

\* Execute: the security check, then the handler.  A failed check is
\* answered with a message made of a prefix and err.Error().  hout is what
\* the handler does with this request: "ok" (it returns its response) or
\* "panic" (the trace then records the fault after the handler's entry).
Execute(route, idx, ctx, hout) ==
    LET err == Check(route.sec, ctx)
    IN  IF err # NilErr
        THEN [trace |-> <<Ev("check", idx)>>,
              resp |-> NewMessage(<<"prohibited: ">> \o ErrorText(err))]
        ELSE IF hout = "panic"
        THEN [trace |-> <<Ev("check", idx), Ev("handler", idx), Ev("panic", idx)>>,
              resp |-> Panic]
        ELSE [trace |-> <<Ev("check", idx), Ev("handler", idx)>>,
              resp |-> Resp("handler", idx)]

----------------------------------------------------------------------------
(* Sorting *)

Perms(n) == {p \in [1..n -> 1..n] : \A i, j \in 1..n : p[i] = p[j] => i = j}

\* sort.Slice(s, func(i, j) { return s[i].prio > s[j].prio }): some
\* permutation in descending priority; the order of equal elements is not
\* guaranteed.  The result is the permutation of indices.
SortSliceAscending(s) ==
    {p \in Perms(Len(s)) : \A i \in 1..(Len(s) - 1) : s[p[i]].prio <= s[p[i + 1]].prio}

SortSlice(s) ==
    {p \in Perms(Len(s)) : \A i \in 1..(Len(s) - 1) : s[p[i]].prio >= s[p[i + 1]].prio}

Permute(s, p) == [i \in 1..Len(s) |-> s[p[i]]]

----------------------------------------------------------------------------
(* Router.routeInternal (routing/router.go) *)

\* The text to match: the callback payload for a callback that carries one.
TextToMatch(ctx) ==
    IF ctx.kind = "callback" /\ ctx.cb # << >> THEN ctx.cb ELSE ctx.text

\* The loop over the sorted snapshot from position i on: each route is
\* type-checked, then matched; for the first match the parameters are set
\* in the context ("params"), the route is executed and the loop ends.
RECURSIVE MatchLoopNoBreak(_, _, _, _, _)
MatchLoopNoBreak(rs, order, i, ctx, hout) ==
    IF i > Len(order)
    THEN [trace |-> << >>, resp |-> Silent]
    ELSE LET idx == order[i]
             route == rs[idx]
             rest == MatchLoopNoBreak(rs, order, i + 1, ctx, hout)
         IN  IF ~MatchType(route, ctx)
             THEN [trace |-> <<Ev("type", idx)>> \o rest.trace, resp |-> rest.resp]
             ELSE IF Match(route, TextToMatch(ctx)).matched
             THEN LET ex == Execute(route, idx, ctx, hout)
                  IN  [trace |-> <<Ev("type", idx), Ev("match", idx), Ev("params", idx)>> \o ex.trace
                                    \o rest.trace,
                       resp |-> ex.resp]
             ELSE [trace |-> <<Ev("type", idx), Ev("match", idx)>> \o rest.trace,
                   resp |-> rest.resp]

RECURSIVE MatchLoop(_, _, _, _, _)
MatchLoop(rs, order, i, ctx, hout) ==
    IF i > Len(order)
    THEN [trace |-> << >>, resp |-> Silent]
    ELSE LET idx == order[i]
             route == rs[idx]
         IN  IF ~MatchType(route, ctx)
             THEN LET rest == MatchLoop(rs, order, i + 1, ctx, hout)
                  IN  [trace |-> <<Ev("type", idx)>> \o rest.trace, resp |-> rest.resp]
             ELSE IF Match(route, TextToMatch(ctx)).matched
             THEN LET ex == Execute(route, idx, ctx, hout)
                  IN  [trace |-> <<Ev("type", idx), Ev("match", idx), Ev("params", idx)>> \o ex.trace,
                       resp |-> ex.resp]
             ELSE LET rest == MatchLoop(rs, order, i + 1, ctx, hout)
                  IN  [trace |-> <<Ev("type", idx), Ev("match", idx)>> \o rest.trace,
                       resp |-> rest.resp]

\* The loop over the wildcard handlers from position i on: the first whose
\* ShouldHandle accepts answers; with none the silent response is returned.
RECURSIVE WildcardLoop(_, _, _)
WildcardLoop(wcs, i, ctx) ==
    IF i > Len(wcs)
    THEN [trace |-> << >>, resp |-> Silent]
    ELSE IF wcs[i].accepts
    THEN [trace |-> <<Ev("should", wcs[i].name), Ev("wildcard", wcs[i].name)>>,
          resp |-> Resp("wildcard", wcs[i].name)]
    ELSE LET rest == WildcardLoop(wcs, i + 1, ctx)
         IN  [trace |-> <<Ev("should", wcs[i].name)>> \o rest.trace, resp |-> rest.resp]

\* Whether the loop over the routes found a route (and executed it).
RouteMatched(trace) == \E k \in DOMAIN trace : trace[k][1] = "check"

\* routeInternal answering a request nothing matched with an error.
RouteInternalErrorOnMiss(rs, wcs, order, ctx, hout) ==
    LET r == MatchLoop(rs, order, 1, ctx, hout)
    IN  IF RouteMatched(r.trace)
        THEN [trace |-> <<Ev("terminal", 0)>> \o r.trace, resp |-> r.resp]
        ELSE [trace |-> <<Ev("terminal", 0)>> \o r.trace, resp |-> Resp("error", "no route")]

\* routeInternal: the routes, then the wildcard handlers, then silence.
RouteInternal(rs, wcs, order, ctx, hout) ==
    LET r == MatchLoop(rs, order, 1, ctx, hout)
        w == WildcardLoop(wcs, 1, ctx)
    IN  IF RouteMatched(r.trace)
        THEN [trace |-> <<Ev("terminal", 0)>> \o r.trace, resp |-> r.resp]
        ELSE [trace |-> <<Ev("terminal", 0)>> \o r.trace \o w.trace, resp |-> w.resp]

----------------------------------------------------------------------------
(* The middleware chain (Router.Route, middleware/core.go) *)

\* Process of one middleware, given what the rest of the chain yields:
\*   logging   calls next and returns its response (a panic passes through)
\*   auth      denies without calling next when the context is not authenticated
\*   recovery  calls next and turns a panic into the fixed error message
\*   faulty    a BaseMiddleware whose handler panics before calling next
\*   metrics   counts the request, calls next and, when next returned,
\*             records the duration (a panic passes through)
ProcessNoRecover(mw, ctx, next) ==
    LET enter == <<Ev("mw", mw.reg)>>
    IN  CASE mw.kind = "logging" ->
               [trace |-> enter \o next.trace, resp |-> next.resp]
          [] mw.kind = "auth" ->
               IF ctx.auth
               THEN [trace |-> enter \o next.trace, resp |-> next.resp]
               ELSE [trace |-> enter, resp |-> Resp("denied", mw.reg)]
          [] mw.kind = "recovery" ->
               [trace |-> enter \o next.trace, resp |-> next.resp]
          [] OTHER -> [trace |-> enter, resp |-> Panic]

ProcessCallsNextAlways(mw, ctx, next) ==
    LET enter == <<Ev("mw", mw.reg)>>
    IN  [trace |-> enter \o next.trace, resp |-> next.resp]

Process(mw, ctx, next) ==
    LET enter == <<Ev("mw", mw.reg)>>
    IN  CASE mw.kind = "logging" ->
               [trace |-> enter \o next.trace, resp |-> next.resp]
          [] mw.kind = "metrics" ->
               [trace |-> enter \o <<Ev("counter", mw.reg)>> \o next.trace
                            \o (IF next.resp = Panic THEN << >> ELSE <<Ev("timing", mw.reg)>>),
                resp |-> next.resp]
          [] mw.kind = "auth" ->
               IF ctx.auth
               THEN [trace |-> enter \o next.trace, resp |-> next.resp]
               ELSE [trace |-> enter, resp |-> Resp("denied", mw.reg)]
          [] mw.kind = "recovery" ->
               [trace |-> enter \o next.trace,
                resp |-> IF next.resp = Panic THEN Recovered ELSE next.resp]
          [] OTHER -> [trace |-> enter, resp |-> Panic]

\* Route builds the chain from the last middleware to the first, so that
\* mws[1] is outermost and the terminal dispatch innermost.
RECURSIVE Chain(_, _, _, _)
Chain(mws, i, ctx, terminal) ==
    IF i > Len(mws)
    THEN terminal
    ELSE Process(mws[i], ctx, Chain(mws, i + 1, ctx, terminal))

----------------------------------------------------------------------------
(* Contexts *)

Ctx(text, kind, cb, auth) ==
    [text |-> text, kind |-> kind, cb |-> cb, auth |-> auth, profile |-> FALSE,
     roles |-> {}, perms |-> {}, source |-> "telegram", user |-> 1, chat |-> 1]

\* A context with the given answers to the getters Check reads.
WithIdentity(ctx, profile, roles, perms, source) ==
    [ctx EXCEPT !.profile = profile, !.roles = roles, !.perms = perms, !.source = source]

NoCtx == Ctx(<< >>, "none", << >>, FALSE)

\* Requests of the dispatch specification: a command, a message in another
\* letter case with trailing space, a command with another text, and a
\* callback whose payload differs from its display text.
DispatchCtxs ==
    {Ctx(<<"a">>, "command", << >>, TRUE),
     Ctx(<<"A", " ">>, "message", << >>, TRUE),
     Ctx(<<"b">>, "command", << >>, TRUE),
     Ctx(<<"a">>, "callback", <<"b">>, TRUE)}

\* Requests of the chain specification: authenticated or not.
ChainCtxs == {Ctx(t, "command", << >>, a) : t \in {<<"a">>, <<"b">>}, a \in BOOLEAN}

----------------------------------------------------------------------------
(* Event bus (events/bus.go) *)

\* Topics subscribed to and types of the events published; "*" is the
\* reserved wildcard topic, "u" a type nobody subscribes to.
WildcardTopic == "*"
Topics == {"t", WildcardTopic}
EventTypes == {"t", "u", WildcardTopic}

\* A subscription: the number of its registration and its filter: "nil" for
\* Subscribe, "reject" for a SubscribeWithFilter whose filter rejects the
\* events published here (an accepting filter acts as none).
Filters == {"nil", "reject"}
Subscription(id, filter) == [id |-> id, filter |-> filter]
NoSub == Subscription(0, "nil")

\* A slice: its backing array (as long as the capacity) and its length.
\* Slices made from one another share the array.
Slice(array, len) == [array |-> array, len |-> len]
NilSlice == Slice(<< >>, 0)
Elems(sl) == SubSeq(sl.array, 1, sl.len)
Cap(sl) == Len(sl.array)

\* The capacity append gives a slice of subscriptions that is full.
GrowCap(cap) == IF cap = 0 THEN 1 ELSE 2 * cap

Pad(seq, cap) == seq \o [i \in 1..(cap - Len(seq)) |-> NoSub]

\* append(sl, elems...): in place when the capacity allows, else a new array.
AppendSlice(sl, elems) ==
    IF sl.len + Len(elems) <= Cap(sl)
    THEN Slice([i \in 1..Cap(sl) |->
                  IF i > sl.len /\ i <= sl.len + Len(elems)
                  THEN elems[i - sl.len] ELSE sl.array[i]],
               sl.len + Len(elems))
    ELSE IF Len(elems) = 1
    THEN Slice(Pad(Append(Elems(sl), elems[1]), GrowCap(Cap(sl))), sl.len + 1)
    ELSE Slice(Elems(sl) \o elems, sl.len + Len(elems))

InPlace(sl, elems) == sl.len + Len(elems) <= Cap(sl)

NoPub ==
    [active |-> FALSE, type |-> "", shared |-> "", array |-> << >>, len |-> 0,
     i |-> 0, errors |-> 0, invoked |-> << >>, failed |-> {},
     topicSnap |-> << >>, wildSnap |-> << >>]

NoPubDone ==
    [returned |-> FALSE, type |-> "", topicSnap |-> << >>, wildSnap |-> << >>,
     invoked |-> << >>, failed |-> {}, errors |-> 0]

\* The bus as a value: what Subscribe reads and writes.
Bus == [subscribers |-> subscribers, subRegs |-> subRegs, pub |-> pub]

\* Subscribe / SubscribeWithFilter on a bus value: append to the topic's
\* slice.  A Publish in progress whose local slice shares the topic's array
\* keeps the old array when append moves the topic to a new one.
SubscribeOp(b, topic, filter) ==
    LET old == b.subscribers[topic]
        sub == Subscription(b.subRegs + 1, filter)
    IN  [subscribers |-> [b.subscribers EXCEPT ![topic] = AppendSlice(old, <<sub>>)],
         subRegs |-> b.subRegs + 1,
         pub |-> IF b.pub.active /\ b.pub.shared = topic /\ ~InPlace(old, <<sub>>)
                 THEN [b.pub EXCEPT !.shared = "", !.array = old.array]
                 ELSE b.pub]

Subscribe(topic, filter) ==
    /\ subRegs < MaxSubs
    /\ LET b == SubscribeOp(Bus, topic, filter)
       IN  /\ subscribers' = b.subscribers
           /\ subRegs' = b.subRegs
           /\ pub' = b.pub
    /\ pubDone' = NoPubDone
    /\ UNCHANGED busStarted
    /\ UNCHANGED asyncVars
    /\ UNCHANGED routerVars
    /\ UNCHANGED limiterVars

\* Publish, up to the release of the read lock: the local slice is the
\* topic's slice with the wildcard topic's subscriptions appended.  With no
\* subscription at all Publish returns nil at once.
PublishBegin(type) ==
    /\ ~pub.active
    /\ LET subs == subscribers[type]
           wildcardSubs == subscribers[WildcardTopic]
           all == IF wildcardSubs.len > 0
                  THEN AppendSlice(subs, Elems(wildcardSubs))
                  ELSE subs
           shares == subs.len > 0
                     /\ (wildcardSubs.len = 0 \/ InPlace(subs, Elems(wildcardSubs)))
       IN  IF all.len = 0
           THEN /\ pubDone' = [NoPubDone EXCEPT !.returned = TRUE, !.type = type]
                /\ UNCHANGED <<subscribers, pub>>
           ELSE /\ pub' = [active |-> TRUE, type |-> type,
                           shared |-> IF shares THEN type ELSE "",
                           array |-> IF shares THEN << >> ELSE all.array,
                           len |-> all.len, i |-> 1, errors |-> 0,
                           invoked |-> << >>, failed |-> {},
                           topicSnap |-> Elems(subs),
                           wildSnap |-> Elems(wildcardSubs)]
                /\ subscribers' = IF shares
                                  THEN [subscribers EXCEPT ![type].array = all.array]
                                  ELSE subscribers
                /\ pubDone' = NoPubDone
    /\ UNCHANGED <<subRegs, busStarted>>
    /\ UNCHANGED asyncVars
    /\ UNCHANGED routerVars
    /\ UNCHANGED limiterVars

\* The element of the local slice the loop reads next.
PubElem ==
    IF pub.shared # "" THEN subscribers[pub.shared].array[pub.i] ELSE pub.array[pub.i]

\* callHandler: a handler that returns an error and one that panics both
\* yield an error.
callHandler(outcome) == IF outcome = "ok" THEN "nil" ELSE "error"

\* One iteration of Publish's loop: the filter, then the handler.
PublishStep(outcome) ==
    /\ pub.active
    /\ pub.i <= pub.len
    /\ LET sub == PubElem
           err == callHandler(outcome)
       IN  IF sub.filter = "reject"
           THEN /\ outcome = "ok"
                /\ pub' = [pub EXCEPT !.i = @ + 1]
           ELSE pub' = [pub EXCEPT !.i = @ + 1,
                                   !.invoked = Append(@, sub.id),
                                   !.errors = IF err = "nil" THEN @ ELSE @ + 1,
                                   !.failed = IF err = "nil" THEN @ ELSE @ \cup {sub.id}]
    /\ UNCHANGED <<subscribers, subRegs, busStarted, pubDone>>
    /\ UNCHANGED asyncVars
    /\ UNCHANGED routerVars
    /\ UNCHANGED limiterVars

\* Publish returns: nil (errors = 0) or an error naming the number of errors.
PublishEnd ==
    /\ pub.active
    /\ pub.i > pub.len
    /\ pubDone' = [returned |-> TRUE, type |-> pub.type, topicSnap |-> pub.topicSnap,
                   wildSnap |-> pub.wildSnap, invoked |-> pub.invoked,
                   failed |-> pub.failed, errors |-> pub.errors]
    /\ pub' = NoPub
    /\ UNCHANGED <<subscribers, subRegs, busStarted>>
    /\ UNCHANGED asyncVars
    /\ UNCHANGED routerVars
    /\ UNCHANGED limiterVars

\* The asynchronous half of the bus (events/bus.go).  Events sent through
\* PublishAsync are numbered 1, 2, ... in the order of the calls.

\* The queue channel: its buffered events and whether close() was called.
Queue(items, closed) == [items |-> items, closed |-> closed]
NewQueue == Queue(<< >>, FALSE)

QueueFullOffByOne(q) == Len(q.items) > QueueCap

\* The send case of PublishAsync's select is not ready: the buffer is full.
QueueFull(q) == Len(q.items) >= QueueCap

\* A worker goroutine: where it is in worker() and the event it took.
Worker(at, ev) == [at |-> at, ev |-> ev]
NoWorker == Worker("none", 0)
WorkerIds == 1..MaxWorkers

\* NewEventBus sets the number of workers; SetWorkers replaces it.
DefaultWorkers == MaxWorkers

SpawnNoWorkers(ws, n) == ws

\* The goroutines Start spawns, each entering the select of worker().
SpawnWorkers(ws, n) ==
    [w \in WorkerIds |-> IF w <= n THEN Worker("select", 0) ELSE ws[w]]

\* wg.Wait() returns: no spawned worker is still running.
WorkersExited(ws) == \A w \in WorkerIds : ws[w].at \in {"none", "exited"}

\* EventBus.mu is "free" or held by "Stop" while it waits.
NewBctl == [count |-> DefaultWorkers, ctx |-> "none", mu |-> "free", stop |-> "idle"]

NewAlog ==
    [sent |-> 0, fate |-> << >>, delivered |-> << >>, everStarted |-> FALSE,
     stopCalled |-> FALSE, beforeStop |-> 0, stopResult |-> "none",
     stopReturned |-> FALSE, stoppedOk |-> FALSE,
     cancels |-> 0, closes |-> 0, fault |-> "none"]

\* A panic nobody recovers ends the program.
Running == alog.fault = "none"

BusLockFree == bctl.mu = "free"

SetWorkers(count) ==
    /\ Running
    /\ ~busStarted
    /\ bctl' = [bctl EXCEPT !.count = count]
    /\ UNCHANGED <<subscribers, subRegs, busStarted, pub, pubDone, queue, workers, alog>>
    /\ UNCHANGED routerVars
    /\ UNCHANGED limiterVars

\* EventBus.Start: a second Start is refused; otherwise a new cancellable
\* context is derived, the workers are spawned and the flag is set.  The
\* queue is the one NewEventBus made.
BusStart ==
    /\ Running
    /\ BusLockFree
    /\ IF busStarted
       THEN UNCHANGED <<busStarted, workers, bctl, alog>>
       ELSE /\ busStarted' = TRUE
            /\ workers' = SpawnWorkers(workers, bctl.count)
            /\ bctl' = [bctl EXCEPT !.ctx = "live"]
            /\ alog' = [alog EXCEPT !.everStarted = TRUE]
    /\ UNCHANGED <<subscribers, subRegs, pub, pubDone, queue>>
    /\ UNCHANGED routerVars
    /\ UNCHANGED limiterVars

\* The context given to Start is cancelled by its owner.
CtxCancel ==
    /\ Running
    /\ bctl.ctx = "live"
    /\ bctl' = [bctl EXCEPT !.ctx = "cancelled"]
    /\ UNCHANGED <<subscribers, subRegs, busStarted, pub, pubDone, queue, workers, alog>>
    /\ UNCHANGED routerVars
    /\ UNCHANGED limiterVars

\* EventBus.PublishAsync: the flag is read without the lock; a bus that is
\* not started drops the event with a warning; otherwise the select sends
\* or, when the buffer is full, drops with an error and a counter.  A send
\* on a closed channel panics, in a select as well.
PublishAsyncFate ==
    IF ~busStarted THEN "not started"
    ELSE IF queue.closed THEN "panic"
    ELSE IF QueueFull(queue) THEN "dropped"
    ELSE "queued"

PublishAsync ==
    /\ Running
    /\ alog.sent < MaxAsync
    /\ LET id == alog.sent + 1
           fate == PublishAsyncFate
       IN  /\ queue' = IF fate = "queued"
                       THEN [queue EXCEPT !.items = Append(@, id)]
                       ELSE queue
           /\ alog' = [alog EXCEPT !.sent = id,
                                   !.fate = Append(@, fate),
                                   !.fault = IF fate = "panic"
                                             THEN "send on closed channel"
                                             ELSE @]
    /\ UNCHANGED <<subscribers, subRegs, busStarted, pub, pubDone, workers, bctl>>
    /\ UNCHANGED routerVars
    /\ UNCHANGED limiterVars

\* worker(): the select.  The receive is ready when the buffer holds an
\* event or the channel is closed; the Done case when the context is
\* cancelled; of two ready cases either may be taken.
WorkerSelect(w) ==
    /\ Running
    /\ workers[w].at = "select"
    /\ \/ /\ queue.items # << >>
          /\ workers' = [workers EXCEPT ![w] = Worker("dequeued", Head(queue.items))]
          /\ queue' = [queue EXCEPT !.items = Tail(@)]
       \/ /\ queue.items = << >>
          /\ queue.closed
          /\ workers' = [workers EXCEPT ![w] = Worker("exited", 0)]
          /\ UNCHANGED queue
       \/ /\ bctl.ctx = "cancelled"
          /\ workers' = [workers EXCEPT ![w] = Worker("exited", 0)]
          /\ UNCHANGED queue
    /\ UNCHANGED <<subscribers, subRegs, busStarted, pub, pubDone, bctl, alog>>
    /\ UNCHANGED routerVars
    /\ UNCHANGED limiterVars

\* worker(): Publish takes the read lock to copy the subscriber lists.
WorkerPublish(w) ==
    /\ Running
    /\ workers[w].at = "dequeued"
    /\ BusLockFree
    /\ workers' = [workers EXCEPT ![w].at = "handling"]
    /\ UNCHANGED <<subscribers, subRegs, busStarted, pub, pubDone, queue, bctl, alog>>
    /\ UNCHANGED routerVars
    /\ UNCHANGED limiterVars

\* worker(): Publish has called the handlers and returned; the loop goes
\* back to the select.
WorkerDone(w) ==
    /\ Running
    /\ workers[w].at = "handling"
    /\ alog' = [alog EXCEPT !.delivered = Append(@, workers[w].ev)]
    /\ workers' = [workers EXCEPT ![w] = Worker("select", 0)]
    /\ UNCHANGED <<subscribers, subRegs, busStarted, pub, pubDone, queue, bctl>>
    /\ UNCHANGED routerVars
    /\ UNCHANGED limiterVars

\* EventBus.Stop up to its select: under the lock, a bus that is not started
\* returns nil; otherwise cancel() is called, then close(queue), which
\* panics on a closed channel, and Stop waits with the lock held.
BusStopBegin ==
    /\ Running
    /\ BusLockFree
    /\ bctl.stop = "idle"
    /\ IF ~busStarted
       THEN /\ alog' = [alog EXCEPT !.stopResult = "nil"]
            /\ UNCHANGED <<queue, bctl>>
       ELSE IF queue.closed
       THEN /\ bctl' = [bctl EXCEPT !.ctx = "cancelled"]
            /\ alog' = [alog EXCEPT !.stopCalled = TRUE,
                                    !.beforeStop = alog.sent,
                                    !.cancels = @ + 1,
                                    !.stopResult = "panic",
                                    !.fault = "close of closed channel"]
            /\ UNCHANGED queue
       ELSE /\ bctl' = [bctl EXCEPT !.ctx = "cancelled", !.mu = "Stop", !.stop = "waiting"]
            /\ queue' = [queue EXCEPT !.closed = TRUE]
            /\ alog' = [alog EXCEPT !.stopCalled = TRUE,
                                    !.beforeStop = alog.sent,
                                    !.cancels = @ + 1,
                                    !.closes = @ + 1,
                                    !.stopResult = "none"]
    /\ UNCHANGED <<subscribers, subRegs, busStarted, pub, pubDone, workers>>
    /\ UNCHANGED routerVars
    /\ UNCHANGED limiterVars

\* Stop's select, case done: every worker returned; the flag is cleared.
BusStopNil ==
    /\ Running
    /\ bctl.stop = "waiting"
    /\ WorkersExited(workers)
    /\ busStarted' = FALSE
    /\ bctl' = [bctl EXCEPT !.mu = "free", !.stop = "idle"]
    /\ alog' = [alog EXCEPT !.stopResult = "nil", !.stopReturned = TRUE, !.stoppedOk = TRUE]
    /\ UNCHANGED <<subscribers, subRegs, pub, pubDone, queue, workers>>
    /\ UNCHANGED routerVars
    /\ UNCHANGED limiterVars

\* Stop's select, case ctx.Done(): the caller's deadline elapsed; the error
\* is returned and the flag stays set.
BusStopTimeout ==
    /\ Running
    /\ bctl.stop = "waiting"
    /\ bctl' = [bctl EXCEPT !.mu = "free", !.stop = "idle"]
    /\ alog' = [alog EXCEPT !.stopResult = "timeout", !.stopReturned = TRUE]
    /\ UNCHANGED <<subscribers, subRegs, busStarted, pub, pubDone, queue, workers>>
    /\ UNCHANGED routerVars
    /\ UNCHANGED limiterVars

BusNew ==
    /\ subscribers = [t \in Topics \cup EventTypes |-> NilSlice]
    /\ subRegs = 0
    /\ busStarted = FALSE
    /\ pub = NoPub
    /\ pubDone = NoPubDone
    /\ queue = NewQueue
    /\ workers = [w \in WorkerIds |-> NoWorker]
    /\ bctl = NewBctl
    /\ alog = NewAlog

----------------------------------------------------------------------------
(* Router state and operations (routing/router.go) *)

\* A route as RegisterModule stores it: the pattern's fields, its list of
\* compiled expressions, still empty, and the flag of the compiledRoute.
RoutePattern(patterns, prio, type, sec) ==
    [patterns |-> patterns, prio |-> prio, type |-> type, sec |-> sec,
     compiled |-> << >>, isCompiled |-> FALSE]

\* compileRoutesOnce: each route not yet flagged is compiled and flagged.
compileRoutesOnce(rs) ==
    [i \in 1..Len(rs) |->
        IF rs[i].isCompiled THEN rs[i]
        ELSE [rs[i] EXCEPT !.compiled = Compile(rs[i].patterns), !.isCompiled = TRUE]]

\* routeInternal was reached: no middleware answered before it.
TerminalReached(trace) == \E k \in DOMAIN trace : trace[k] = Ev("terminal", 0)

\* The routes after a Route call that returned the given trace.
RoutesAfter(trace) == IF TerminalReached(trace) THEN compileRoutesOnce(routes) ELSE routes

\* Routes a module may bring: one pattern, default security rule.
DispatchRoutes ==
    {RoutePattern(<<p>>, pr, ty, NoRule) : p \in Patterns, pr \in Prios, ty \in RouteTypes}

MwKinds == {"logging", "auth", "recovery", "faulty"}

NoCall == [op |-> "none", ctx |-> NoCtx, trace |-> << >>, resp |-> Resp("none", 0)]

\* What a call other than Route returned: nil or an error.
Returned(op, kind, arg) == [NoCall EXCEPT !.op = op, !.resp = Resp(kind, arg)]

\* The goroutines calling the router, and where one is: "idle", "Route" (the
\* call is made and waits for the read lock) or "RegisterModule" (inside
\* RegisterWildcard, at RegisterModule's Lock).
Callers == 1..NumProcs
NoModule == [name |-> 0, prio |-> 0, accepts |-> FALSE]
Idle == [at |-> "idle", ctx |-> NoCtx, module |-> NoModule]

\* Router.mu can be taken: no goroutine holds it.  Every call here holds it
\* from its first line to its return.
RouterLockFree(owner) == owner = NoOwner

\* core.EventSubscription: the topic and whether the handler is set.
EventSubscription(type, handler) == [EventType |-> type, Handler |-> handler]

\* The module's event subscriptions, made one after the other: the bus
\* afterwards and whether a Subscribe failed.  Subscribe rejects a nil
\* handler, and the loop returns at the first error.
RECURSIVE SubscribeEach(_, _, _)
SubscribeEach(b, events, i) ==
    IF i > Len(events) THEN [bus |-> b, err |-> FALSE]
    ELSE IF events[i].Handler = "nil" THEN [bus |-> b, err |-> TRUE]
    ELSE SubscribeEach(SubscribeOp(b, events[i].EventType, "nil"), events, i + 1)

\* RegisterModule without the check of the started flag.
RegisterModuleNoStartedCheck(name, route, events, minit) ==
    /\ RouterLockFree(rmu)
    /\ Len(routes) < MaxRoutes
    /\ subRegs + Len(events) <= MaxSubs
    /\ IF name \in modules
       THEN /\ lastCall' = Returned("RegisterModule", "error", "already registered")
            /\ UNCHANGED <<modules, routes, subscribers, subRegs, pub>>
       ELSE IF minit = "fail"
       THEN /\ lastCall' = Returned("RegisterModule", "error", "init")
            /\ UNCHANGED <<modules, routes, subscribers, subRegs, pub>>
       ELSE LET s == SubscribeEach(Bus, events, 1)
            IN  /\ modules' = modules \cup {name}
                /\ routes' = Append(routes, route)
                /\ subscribers' = s.bus.subscribers
                /\ subRegs' = s.bus.subRegs
                /\ pub' = s.bus.pub
                /\ lastCall' = IF s.err
                               THEN Returned("RegisterModule", "error", "subscribe")
                               ELSE Returned("RegisterModule", "nil", 0)
    /\ UNCHANGED <<middlewares, mwRegs, handlerRuns>>
    /\ UNCHANGED lifeVars
    /\ UNCHANGED limiterVars
    /\ UNCHANGED <<busStarted, pubDone>>
    /\ UNCHANGED asyncVars

\* RegisterModule with a module of the given name, one route and the given
\* event subscriptions; minit is what the module's Init answers.  A started
\* router, a duplicate name and a failing Init are answered with an error
\* and change nothing.  The module and its route are stored before the
\* subscriptions are made; a failing subscription returns the error and
\* leaves them, and the subscriptions made before it, in place.
RegisterModule(name, route, events, minit) ==
    /\ RouterLockFree(rmu)
    /\ Len(routes) < MaxRoutes
    /\ subRegs + Len(events) <= MaxSubs
    /\ IF started
       THEN /\ lastCall' = Returned("RegisterModule", "error", "started")
            /\ UNCHANGED <<modules, routes, subscribers, subRegs, pub>>
       ELSE IF name \in modules
       THEN /\ lastCall' = Returned("RegisterModule", "error", "already registered")
            /\ UNCHANGED <<modules, routes, subscribers, subRegs, pub>>
       ELSE IF minit = "fail"
       THEN /\ lastCall' = Returned("RegisterModule", "error", "init")
            /\ UNCHANGED <<modules, routes, subscribers, subRegs, pub>>
       ELSE LET s == SubscribeEach(Bus, events, 1)
            IN  /\ modules' = modules \cup {name}
                /\ routes' = Append(routes, route)
                /\ subscribers' = s.bus.subscribers
                /\ subRegs' = s.bus.subRegs
                /\ pub' = s.bus.pub
                /\ lastCall' = IF s.err
                               THEN Returned("RegisterModule", "error", "subscribe")
                               ELSE Returned("RegisterModule", "nil", 0)
    /\ UNCHANGED <<middlewares, mwRegs, handlerRuns>>
    /\ UNCHANGED lifeVars
    /\ UNCHANGED limiterVars
    /\ UNCHANGED <<busStarted, pubDone>>
    /\ UNCHANGED asyncVars

\* A wildcard module: its name, priority and what ShouldHandle answers.
WildcardHandler(name, prio, accepts) == [name |-> name, prio |-> prio, accepts |-> accepts]

\* RegisterWildcard by goroutine p.  It takes Router.mu; on a started router
\* it returns an error.  Otherwise it calls RegisterModule while holding the
\* lock, and RegisterModule begins by taking the same lock: if that Lock
\* succeeds the module and its routes are registered, the handler is appended
\* and the handlers are sorted by descending priority; if not, p waits at it.
RegisterWildcard(p, name, prio, accepts, route) ==
    /\ rpc[p] = Idle
    /\ RouterLockFree(rmu)
    /\ Len(routes) < MaxRoutes
    /\ IF started
       THEN /\ lastCall' = Returned("RegisterWildcard", "error", "started")
            /\ UNCHANGED <<modules, routes, wildcards, rmu, rpc>>
       ELSE IF ~RouterLockFree(p)
       THEN /\ rmu' = p
            /\ rpc' = [rpc EXCEPT ![p] = [at |-> "RegisterModule", ctx |-> NoCtx,
                                           module |-> WildcardHandler(name, prio, accepts)]]
            /\ lastCall' = [NoCall EXCEPT !.op = "RegisterWildcard"]
            /\ UNCHANGED <<modules, routes, wildcards>>
       ELSE IF name \in modules
       THEN /\ lastCall' = Returned("RegisterWildcard", "error", "already registered")
            /\ UNCHANGED <<modules, routes, wildcards, rmu, rpc>>
       ELSE /\ modules' = modules \cup {name}
            /\ routes' = Append(routes, route)
            /\ LET appended == Append(wildcards, WildcardHandler(name, prio, accepts))
               IN  \E o \in SortSlice(appended) : wildcards' = Permute(appended, o)
            /\ lastCall' = Returned("RegisterWildcard", "nil", 0)
            /\ UNCHANGED <<rmu, rpc>>
    /\ UNCHANGED <<middlewares, mwRegs, handlerRuns, started>>
    /\ UNCHANGED limiterVars
    /\ UNCHANGED busVars

\* RegisterMiddleware: append, then sort.Slice by descending priority.
RegisterMiddleware(kind, prio) ==
    /\ RouterLockFree(rmu)
    /\ Len(middlewares) < MaxMw
    /\ LET mw == [kind |-> kind, prio |-> prio, reg |-> mwRegs + 1]
           appended == Append(middlewares, mw)
       IN  \E p \in SortSlice(appended) : middlewares' = Permute(appended, p)
    /\ mwRegs' = mwRegs + 1
    /\ lastCall' = [NoCall EXCEPT !.op = "RegisterMiddleware"]
    /\ UNCHANGED <<modules, routes, handlerRuns>>
    /\ UNCHANGED lifeVars
    /\ UNCHANGED limiterVars
    /\ UNCHANGED busVars

\* Start: the modules are started, then the event bus, then the flag is set.
\* mstart is whether the modules start; a failure leaves the flag unset.
Start(mstart) ==
    /\ Running
    /\ RouterLockFree(rmu)
    /\ BusLockFree
    /\ IF started
       THEN /\ lastCall' = Returned("Start", "error", "already started")
            /\ UNCHANGED <<started, busStarted, workers, bctl, alog>>
       ELSE IF modules # {} /\ mstart = "fail"
       THEN /\ lastCall' = Returned("Start", "error", "module")
            /\ UNCHANGED <<started, busStarted, workers, bctl, alog>>
       ELSE IF busStarted
       THEN /\ lastCall' = Returned("Start", "error", "event bus")
            /\ UNCHANGED <<started, busStarted, workers, bctl, alog>>
       ELSE /\ busStarted' = TRUE
            /\ workers' = SpawnWorkers(workers, bctl.count)
            /\ bctl' = [bctl EXCEPT !.ctx = "live"]
            /\ alog' = [alog EXCEPT !.everStarted = TRUE]
            /\ started' = TRUE
            /\ lastCall' = Returned("Start", "nil", 0)
    /\ UNCHANGED <<modules, routes, middlewares, mwRegs, handlerRuns, wildcards, rmu, rpc>>
    /\ UNCHANGED limiterVars
    /\ UNCHANGED <<subscribers, subRegs, pub, pubDone, queue>>

\* The orders in which ranging over the modules map may visit the modules.
ModuleOrders(ms) ==
    {o \in [1..Cardinality(ms) -> ms] : \A i, j \in 1..Cardinality(ms) : o[i] = o[j] => i = j}

\* The calls Router.Stop makes, in order: Stop of each module in the order of
\* the map iteration, then Stop of the event bus; each with its outcome.
StopCalls(order, mfail, berr) ==
    [i \in 1..Len(order) |->
        Ev("module.Stop", [name |-> order[i],
                           err |-> IF order[i] \in mfail THEN "error" ELSE "nil"])]
    \o <<Ev("bus.Stop", [name |-> 0, err |-> berr])>>

\* What the event bus Stop does inside Router.Stop, whose workers wait in
\* their select: "ok" when they all leave before the deadline of the
\* context, "timeout" when the deadline comes first.
BusStopOutcome(bstop) ==
    IF ~busStarted THEN "nil"
    ELSE IF queue.closed THEN "panic"
    ELSE IF bstop = "ok" /\ \A w \in WorkerIds : workers[w].at \in {"none", "select", "exited"}
    THEN "nil"
    ELSE "error"

\* Stop: a router that is not started returns nil.  Otherwise each module is
\* stopped, then the event bus; a failure of either is logged; the flag is
\* cleared and nil returned.  order is the order of the map iteration, mfail
\* the modules whose Stop fails, bstop the outcome of the wait of the bus.
Stop(order, mfail, bstop) ==
    /\ Running
    /\ RouterLockFree(rmu)
    /\ BusLockFree
    /\ IF ~started
       THEN /\ lastCall' = Returned("Stop", "nil", 0)
            /\ UNCHANGED <<started, busStarted, queue, workers, bctl, alog>>
       ELSE LET berr == BusStopOutcome(bstop)
                stopping == busStarted /\ berr # "panic"
            IN  /\ started' = IF berr = "panic" THEN started ELSE FALSE
                /\ busStarted' = IF busStarted /\ berr = "nil" THEN FALSE ELSE busStarted
                /\ queue' = IF stopping THEN [queue EXCEPT !.closed = TRUE] ELSE queue
                /\ workers' = IF busStarted /\ berr = "nil"
                              THEN [w \in WorkerIds |->
                                       IF workers[w].at = "select"
                                       THEN Worker("exited", 0) ELSE workers[w]]
                              ELSE workers
                /\ bctl' = IF busStarted THEN [bctl EXCEPT !.ctx = "cancelled"] ELSE bctl
                /\ alog' = IF ~busStarted THEN alog
                           ELSE [alog EXCEPT
                                   !.stopCalled = TRUE,
                                   !.beforeStop = alog.sent,
                                   !.cancels = @ + 1,
                                   !.closes = IF stopping THEN @ + 1 ELSE @,
                                   !.stopResult = IF berr = "error" THEN "timeout" ELSE berr,
                                   !.stopReturned = IF berr = "panic" THEN @ ELSE TRUE,
                                   !.stoppedOk = IF berr = "nil" THEN TRUE ELSE @,
                                   !.fault = IF berr = "panic"
                                             THEN "close of closed channel" ELSE @]
                /\ lastCall' = [Returned("Stop", IF berr = "panic" THEN "panic" ELSE "nil", 0)
                                   EXCEPT !.trace = StopCalls(order, mfail, berr)]
    /\ UNCHANGED <<modules, routes, middlewares, mwRegs, handlerRuns, wildcards, rmu, rpc>>
    /\ UNCHANGED limiterVars
    /\ UNCHANGED <<subscribers, subRegs, pub, pubDone>>

\* What one Route call does: the chain around the terminal dispatch, which
\* sorts a copy of the routes.  hout is the behaviour of the handler, drawn
\* from houts.
RouteOutcomes(ctx, hout) ==
    {Chain(middlewares, 1, ctx, terminal) :
        terminal \in {RouteInternal(rs, wildcards, order, ctx, hout) :
                         rs \in {compileRoutesOnce(routes)}, order \in SortSlice(routes)}}

RouteStep(ctxs, houts) ==
    /\ RouterLockFree(rmu)
    /\ \E ctx \in ctxs, hout \in houts :
         \E r \in RouteOutcomes(ctx, hout) :
            /\ lastCall' = [op |-> "route", ctx |-> ctx, trace |-> r.trace, resp |-> r.resp]
            /\ routes' = RoutesAfter(r.trace)
    /\ UNCHANGED <<modules, middlewares, mwRegs>>
    /\ UNCHANGED lifeVars

Route(ctxs, houts) ==
    /\ RouteStep(ctxs, houts)
    /\ UNCHANGED handlerRuns
    /\ UNCHANGED limiterVars
    /\ UNCHANGED busVars

\* A goroutine calls Route: the call waits for the read lock.
RouteBegin(p, ctx) ==
    /\ rpc[p] = Idle
    /\ rpc' = [rpc EXCEPT ![p] = [at |-> "Route", ctx |-> ctx, module |-> NoModule]]
    /\ UNCHANGED <<modules, routes, middlewares, mwRegs, lastCall, handlerRuns,
                   started, wildcards, rmu>>
    /\ UNCHANGED limiterVars
    /\ UNCHANGED busVars

\* The call takes the read lock, runs the chain and returns.
RouteEnd(p) ==
    /\ rpc[p].at = "Route"
    /\ RouterLockFree(rmu)
    /\ \E r \in RouteOutcomes(rpc[p].ctx, "ok") :
          /\ lastCall' = [op |-> "route", ctx |-> rpc[p].ctx, trace |-> r.trace, resp |-> r.resp]
          /\ routes' = RoutesAfter(r.trace)
    /\ rpc' = [rpc EXCEPT ![p] = Idle]
    /\ UNCHANGED <<modules, middlewares, mwRegs, handlerRuns,
                   started, wildcards, rmu>>
    /\ UNCHANGED limiterVars
    /\ UNCHANGED busVars

\* RoutePattern.Match called on route i with the given text: an empty list
\* of compiled expressions is compiled and kept; the result is reported.
MatchCall(i, text) ==
    /\ routes' = [routes EXCEPT ![i].compiled =
                     IF Len(@) = 0 THEN Compile(routes[i].patterns) ELSE @]
    /\ lastCall' = [op |-> "match", ctx |-> Ctx(text, "message", << >>, TRUE),
                    trace |-> << >>, resp |-> Resp("match", Match(routes[i], text))]
    /\ UNCHANGED <<modules, middlewares, mwRegs, handlerRuns>>
    /\ UNCHANGED lifeVars
    /\ UNCHANGED limiterVars
    /\ UNCHANGED busVars

\* Route step by step, for goroutines that run it at the same time on a
\* router without middlewares.  Each holds the read lock, which excludes
\* writers of Router.mu only; i is the index of compileRoutesOnce's loop, j
\* that of Compile's.
Compiling(at, ctx, i, j) == [at |-> at, ctx |-> ctx, module |-> NoModule, i |-> i, j |-> j]

\* Route takes the read lock and routeInternal enters compileRoutesOnce.
CompileBegin(p, ctx) ==
    /\ rpc[p] = Idle
    /\ RouterLockFree(rmu)
    /\ rpc' = [rpc EXCEPT ![p] = Compiling("compileRoutesOnce", ctx, 1, 0)]
    /\ UNCHANGED <<modules, routes, middlewares, mwRegs, lastCall, handlerRuns,
                   started, wildcards, rmu>>
    /\ UNCHANGED limiterVars
    /\ UNCHANGED busVars

\* compileRoutesOnce: the loop reads the flag of route i.
CompileCheck(p) ==
    /\ rpc[p].at = "compileRoutesOnce"
    /\ LET i == rpc[p].i
       IN  rpc' = [rpc EXCEPT ![p] =
                     IF i > Len(routes) THEN [@ EXCEPT !.at = "match"]
                     ELSE IF routes[i].isCompiled THEN [@ EXCEPT !.i = i + 1]
                     ELSE [@ EXCEPT !.at = "Compile"]]
    /\ UNCHANGED <<modules, routes, middlewares, mwRegs, lastCall, handlerRuns,
                   started, wildcards, rmu>>
    /\ UNCHANGED limiterVars
    /\ UNCHANGED busVars

\* Compile: r.compiled = make(...), the list of route i is emptied.
CompileMake(p) ==
    /\ rpc[p].at = "Compile"
    /\ routes' = [routes EXCEPT ![rpc[p].i].compiled = << >>]
    /\ rpc' = [rpc EXCEPT ![p].at = "append", ![p].j = 1]
    /\ UNCHANGED <<modules, middlewares, mwRegs, lastCall, handlerRuns,
                   started, wildcards, rmu>>
    /\ UNCHANGED limiterVars
    /\ UNCHANGED busVars

\* Compile: r.compiled = append(r.compiled, ...) for pattern j of route i.
CompileAppend(p) ==
    /\ rpc[p].at = "append"
    /\ LET i == rpc[p].i
           j == rpc[p].j
       IN  /\ routes' = [routes EXCEPT
                            ![i].compiled = Append(@, CompileOne(routes[i].patterns[j]))]
           /\ rpc' = [rpc EXCEPT ![p] =
                         IF j = Len(routes[i].patterns)
                         THEN [@ EXCEPT !.at = "flag"]
                         ELSE [@ EXCEPT !.j = j + 1]]
    /\ UNCHANGED <<modules, middlewares, mwRegs, lastCall, handlerRuns,
                   started, wildcards, rmu>>
    /\ UNCHANGED limiterVars
    /\ UNCHANGED busVars

\* compileRoutesOnce: r.routes[i].compiled = true; the loop goes on.
CompileFlag(p) ==
    /\ rpc[p].at = "flag"
    /\ routes' = [routes EXCEPT ![rpc[p].i].isCompiled = TRUE]
    /\ rpc' = [rpc EXCEPT ![p].at = "compileRoutesOnce", ![p].i = @ + 1]
    /\ UNCHANGED <<modules, middlewares, mwRegs, lastCall, handlerRuns,
                   started, wildcards, rmu>>
    /\ UNCHANGED limiterVars
    /\ UNCHANGED busVars

\* routeInternal after compileRoutesOnce: the routes are copied as they are
\* now, the copy is sorted and matched, and Route returns.
CompileMatch(p) ==
    /\ rpc[p].at = "match"
    /\ \E order \in SortSlice(routes) :
          LET r == RouteInternal(routes, wildcards, order, rpc[p].ctx, "ok")
          IN  lastCall' = [op |-> "route", ctx |-> rpc[p].ctx, trace |-> r.trace, resp |-> r.resp]
    /\ rpc' = [rpc EXCEPT ![p] = Idle]
    /\ UNCHANGED <<modules, routes, middlewares, mwRegs, handlerRuns,
                   started, wildcards, rmu>>
    /\ UNCHANGED limiterVars
    /\ UNCHANGED busVars

RECURSIVE RunsTotal(_, _)
RunsTotal(runs, n) == IF n = 0 THEN 0 ELSE runs[n] + RunsTotal(runs, n - 1)

\* Route, with the handler executions of each route counted.
RouteCounted(ctxs) ==
    /\ RunsTotal(handlerRuns, MaxRoutes) < MaxRuns
    /\ RouteStep(ctxs, {"ok"})
    /\ handlerRuns' =
          [i \in 1..MaxRoutes |->
              IF \E k \in DOMAIN lastCall'.trace : lastCall'.trace[k] = Ev("handler", i)
              THEN handlerRuns[i] + 1
              ELSE handlerRuns[i]]
    /\ UNCHANGED limiterVars
    /\ UNCHANGED busVars

\* Time passes; the executions counted are those of the current instant.
TickRouter ==
    /\ now < MaxTime
    /\ now' = now + 1
    /\ handlerRuns' = [i \in 1..MaxRoutes |-> 0]
    /\ UNCHANGED <<modules, routes, middlewares, mwRegs, lastCall>>
    /\ UNCHANGED lifeVars
    /\ UNCHANGED <<config, counters, mu, pc, local, calls, lastOp>>
    /\ UNCHANGED busVars

----------------------------------------------------------------------------
(* RateLimiter (routing/security.go) *)

Procs == 1..NumProcs
Users == {1, 2}
Chats == {1}

\* getKey: fmt.Sprintf("user:%d:chat:%d", user, chat)
AllowKey(user, chat) == <<"user", user, "chat", chat>>

\* Reset and GetLimit: fmt.Sprintf("user:%d", userID)
UserKey(user) == <<"user", user>>

Keys == {AllowKey(u, c) : u \in Users, c \in Chats} \cup {UserKey(u) : u \in Users}

NoCounter == [exists |-> FALSE, Count |-> 0, ResetAt |-> 0]

NoOp == [op |-> "none", user |-> 0, current |-> 0, max |-> 0, resetAt |-> 0]

NoLocal == [key |-> UserKey(0), t |-> 0, ret |-> FALSE]

LockAlwaysFree == TRUE

\* r.mu can be taken
LockFree == mu = NoOwner

ExpiredAtReset(t, resetAt) == t >= resetAt

\* now.After(counter.ResetAt)
Expired(t, resetAt) == t > resetAt

OverQuotaOffByOne(count, max) == count > max

\* counter.Count >= r.config.Requests
OverQuota(count, max) == count >= max

CallsMade ==
    Cardinality({p \in Procs : pc[p] # "idle"})
        + Cardinality({<<k, i>> \in Keys \X (1..MaxCalls) : i <= Len(calls[k])})

\* Allow, entry: the key is computed before the lock is requested.
AllowCall(p, user, chat) ==
    /\ pc[p] = "idle"
    /\ CallsMade < MaxCalls
    /\ local' = [local EXCEPT ![p] = [NoLocal EXCEPT !.key = AllowKey(user, chat)]]
    /\ pc' = [pc EXCEPT ![p] = "lock"]
    /\ UNCHANGED <<config, counters, mu, now, calls, lastOp>>
    /\ UNCHANGED routerVars
    /\ UNCHANGED busVars

\* r.mu.Lock()
AllowLock(p) ==
    /\ pc[p] = "lock"
    /\ LockFree
    /\ mu' = p
    /\ pc' = [pc EXCEPT ![p] = "check"]
    /\ UNCHANGED <<config, counters, now, local, calls, lastOp>>
    /\ UNCHANGED routerVars
    /\ UNCHANGED busVars

\* The check: a missing or expired counter is replaced and the request
\* allowed; a counter at the maximum denies; otherwise the increment follows.
AllowCheck(p) ==
    /\ pc[p] = "check"
    /\ LET key == local[p].key
           c == counters[key]
       IN  IF ~c.exists \/ Expired(now, c.ResetAt)
           THEN /\ counters' = [counters EXCEPT ![key] =
                        [exists |-> TRUE, Count |-> 1, ResetAt |-> now + config.Window]]
                /\ local' = [local EXCEPT ![p].t = now, ![p].ret = TRUE]
                /\ pc' = [pc EXCEPT ![p] = "unlock"]
           ELSE IF OverQuota(c.Count, config.Requests)
           THEN /\ local' = [local EXCEPT ![p].t = now, ![p].ret = FALSE]
                /\ pc' = [pc EXCEPT ![p] = "unlock"]
                /\ UNCHANGED counters
           ELSE /\ local' = [local EXCEPT ![p].t = now]
                /\ pc' = [pc EXCEPT ![p] = "incr"]
                /\ UNCHANGED counters
    /\ lastOp' = NoOp
    /\ UNCHANGED <<config, mu, now, calls>>
    /\ UNCHANGED routerVars
    /\ UNCHANGED busVars

\* counter.Count++
AllowIncr(p) ==
    /\ pc[p] = "incr"
    /\ counters' = [counters EXCEPT ![local[p].key].Count = @ + 1]
    /\ local' = [local EXCEPT ![p].ret = TRUE]
    /\ pc' = [pc EXCEPT ![p] = "unlock"]
    /\ lastOp' = NoOp
    /\ UNCHANGED <<config, mu, now, calls>>
    /\ UNCHANGED routerVars
    /\ UNCHANGED busVars

\* The deferred r.mu.Unlock() and the return.
AllowReturn(p) ==
    /\ pc[p] = "unlock"
    /\ mu' = NoOwner
    /\ calls' = [calls EXCEPT ![local[p].key] =
                    Append(@, [t |-> local[p].t, ret |-> local[p].ret])]
    /\ pc' = [pc EXCEPT ![p] = "idle"]
    /\ local' = [local EXCEPT ![p] = NoLocal]
    /\ UNCHANGED <<config, counters, now, lastOp>>
    /\ UNCHANGED routerVars
    /\ UNCHANGED busVars

\* Reset(userID): deletes the counter stored under the user key.
Reset(user) ==
    /\ LockFree
    /\ counters' = [counters EXCEPT ![UserKey(user)] = NoCounter]
    /\ lastOp' = [NoOp EXCEPT !.op = "reset", !.user = user]
    /\ UNCHANGED <<config, mu, now, pc, local, calls>>
    /\ UNCHANGED routerVars
    /\ UNCHANGED busVars

\* GetLimit(userID): reads the counter stored under the user key.
GetLimit(user) ==
    /\ LockFree
    /\ LET c == counters[UserKey(user)]
       IN  lastOp' = IF ~c.exists
                     THEN [op |-> "getlimit", user |-> user, current |-> 0,
                           max |-> config.Requests, resetAt |-> 0]
                     ELSE [op |-> "getlimit", user |-> user, current |-> c.Count,
                           max |-> config.Requests, resetAt |-> c.ResetAt]
    /\ UNCHANGED <<config, counters, mu, now, pc, local, calls>>
    /\ UNCHANGED routerVars
    /\ UNCHANGED busVars

\* Time passes.
Tick ==
    /\ now < MaxTime
    /\ now' = now + 1
    /\ UNCHANGED <<config, counters, mu, pc, local, calls, lastOp>>
    /\ UNCHANGED routerVars
    /\ UNCHANGED busVars

----------------------------------------------------------------------------
(* Specifications *)

\* NewRateLimiter with the given configuration; no call made yet.
LimiterNew(requests, window) ==
    /\ config = [Requests |-> requests, Window |-> window]
    /\ counters = [k \in Keys |-> NoCounter]
    /\ mu = NoOwner
    /\ now = 0
    /\ pc = [p \in Procs |-> "idle"]
    /\ local = [p \in Procs |-> NoLocal]
    /\ calls = [k \in Keys |-> << >>]
    /\ lastOp = NoOp

LimiterIdle == LimiterNew(1, 1)

RouterEmpty ==
    /\ modules = {}
    /\ routes = << >>
    /\ middlewares = << >>
    /\ mwRegs = 0
    /\ lastCall = NoCall
    /\ handlerRuns = [i \in 1..MaxRoutes |-> 0]
    /\ started = FALSE
    /\ wildcards = << >>
    /\ rmu = NoOwner
    /\ rpc = [p \in Callers |-> Idle]

\* Dispatch: modules register routes, requests are routed.
Init == RouterEmpty /\ LimiterIdle /\ BusNew

RegisterAny == \E name \in ModuleNames, route \in DispatchRoutes : RegisterModule(name, route, << >>, "ok")

RouteAny == Route(DispatchCtxs, {"ok"})

Next == RegisterAny \/ RouteAny

Spec == Init /\ [][Next]_vars

\* Chain: a router with two routes; middlewares register, requests are routed.
ChainRoutes ==
    <<RoutePattern(<<<<"a">>>>, 50, "command", NoRule),
      RoutePattern(<<<<"b">>>>, 90, "command", NoRule)>>

InitChain ==
    /\ modules = {1, 2}
    /\ routes = ChainRoutes
    /\ middlewares = << >>
    /\ mwRegs = 0
    /\ lastCall = NoCall
    /\ handlerRuns = [i \in 1..MaxRoutes |-> 0]
    /\ started = FALSE
    /\ wildcards = << >>
    /\ rmu = NoOwner
    /\ rpc = [p \in Callers |-> Idle]
    /\ LimiterIdle
    /\ BusNew

RegisterAnyMiddleware == \E kind \in MwKinds, prio \in Prios : RegisterMiddleware(kind, prio)

RouteChain == Route(ChainCtxs, {"ok", "panic"})

NextChain == RegisterAnyMiddleware \/ RouteChain

SpecChain == InitChain /\ [][NextChain]_vars

\* Metered: as Chain, with the metrics middleware among the middlewares.
MeteredKinds == {"metrics", "auth", "recovery"}

RegisterMetered == \E kind \in MeteredKinds, prio \in Prios : RegisterMiddleware(kind, prio)

NextMetered == RegisterMetered \/ RouteChain

SpecMetered == InitChain /\ [][NextMetered]_vars

\* Rated: modules register routes with and without a rate-limit policy; the
\* requests all come from one user in one chat.
RatedRoutes ==
    {RoutePattern(<<<<"a">>>>, 50, "command", sec) :
        sec \in {NoRule, WithRequireAuth(NoRule)}
                  \cup {WithRateLimit(NoRule, n, w) : n \in 1..MaxRequests, w \in 1..MaxWindow}}

RatedCtxs == {Ctx(<<"a">>, "command", << >>, a) : a \in BOOLEAN}

RegisterRated == \E name \in ModuleNames, route \in RatedRoutes : RegisterModule(name, route, << >>, "ok")

RouteRated == RouteCounted(RatedCtxs)

NextRated == RegisterRated \/ RouteRated \/ TickRouter

SpecRated == Init /\ [][NextRated]_vars

\* Secure: a router with one route under any security rule; requests with
\* any identity are routed.
SecureRules ==
    {[RequireAuth |-> a, RequireProfile |-> pr, RequireRoles |-> ro,
      RequirePermissions |-> pe, AllowedSources |-> so, Validate |-> v,
      OnFailure |-> f, RateLimit |-> NoRateLimit] :
        a \in BOOLEAN, pr \in BOOLEAN, ro \in {{}, {"admin", "mod"}},
        pe \in {<< >>, <<"read", "write">>}, so \in {{}, {"telegram"}},
        v \in {"nil", "ok", "fail"}, f \in {"nil", "custom"}}

SecureCtxs ==
    {WithIdentity(Ctx(<<"a">>, "command", << >>, a), pr, ro, pe, so) :
        a \in BOOLEAN, pr \in BOOLEAN, ro \in {{}, {"mod"}, {"user"}},
        pe \in {{}, {"read"}, {"write"}, {"read", "write"}},
        so \in {"telegram", "api"}}

InitSecure ==
    /\ \E rule \in SecureRules :
          routes = <<RoutePattern(<<<<"a">>>>, 50, "command", rule)>>
    /\ modules = {1}
    /\ middlewares = << >>
    /\ mwRegs = 0
    /\ lastCall = NoCall
    /\ handlerRuns = [i \in 1..MaxRoutes |-> 0]
    /\ started = FALSE
    /\ wildcards = << >>
    /\ rmu = NoOwner
    /\ rpc = [p \in Callers |-> Idle]
    /\ LimiterIdle
    /\ BusNew

RouteSecure == Route(SecureCtxs, {"ok"})

NextSecure == RouteSecure

SpecSecure == InitSecure /\ [][NextSecure]_vars

\* Life: modules, wildcard modules and middlewares register, the router is
\* started and stopped, requests are routed.  Every route has the pattern
\* "a"; the request "b" is one no route accepts.
LifeRoute == RoutePattern(<<<<"a">>>>, 50, "command", NoRule)
LifeEvents == {<< >>, <<EventSubscription("t", "set")>>}
LifeCtxs == {Ctx(<<"a">>, "command", << >>, TRUE), Ctx(<<"b">>, "command", << >>, TRUE)}
WildcardPrios == {10, 90}

InitLife == RouterEmpty /\ LimiterIdle /\ BusNew

RegisterLife ==
    \E name \in ModuleNames, events \in LifeEvents : RegisterModule(name, LifeRoute, events, "ok")

RegisterWildcardLife ==
    \E p \in Callers, name \in ModuleNames : RegisterWildcard(p, name, 90, TRUE, LifeRoute)

RegisterMiddlewareLife == \E prio \in Prios : RegisterMiddleware("logging", prio)

StartLife == \E mstart \in {"ok", "fail"} : Start(mstart)

\* The modules of Life never fail to stop; one order of the map stands for all.
StopOrder == CHOOSE o \in ModuleOrders(modules) : TRUE

StopLife == \E bstop \in {"ok", "timeout"} : Stop(StopOrder, {}, bstop)

RouteLife == Route(LifeCtxs, {"ok"})

NextLife ==
    \/ RegisterLife
    \/ RegisterWildcardLife
    \/ RegisterMiddlewareLife
    \/ StartLife
    \/ StopLife
    \/ RouteLife

SpecLife == InitLife /\ [][NextLife]_vars

\* Compiling: two modules have registered, one with two patterns, and
\* goroutines call Route at the same time.
CompileRoutes ==
    <<RoutePattern(<<<<"b">>, <<"a">>>>, 90, "command", NoRule),
      RoutePattern(<<<<"a">>>>, 50, "command", NoRule)>>

InitCompile ==
    /\ modules = {1, 2}
    /\ routes = CompileRoutes
    /\ middlewares = << >>
    /\ mwRegs = 0
    /\ lastCall = NoCall
    /\ handlerRuns = [i \in 1..MaxRoutes |-> 0]
    /\ started = FALSE
    /\ wildcards = << >>
    /\ rmu = NoOwner
    /\ rpc = [p \in Callers |-> Idle]
    /\ LimiterIdle
    /\ BusNew

CompileBeginAny == \E p \in Callers, ctx \in LifeCtxs : CompileBegin(p, ctx)

CompileCheckAny == \E p \in Callers : CompileCheck(p)

CompileMakeAny == \E p \in Callers : CompileMake(p)

CompileAppendAny == \E p \in Callers : CompileAppend(p)

CompileFlagAny == \E p \in Callers : CompileFlag(p)

CompileMatchAny == \E p \in Callers : CompileMatch(p)

NextCompile ==
    \/ CompileBeginAny
    \/ CompileCheckAny
    \/ CompileMakeAny
    \/ CompileAppendAny
    \/ CompileFlagAny
    \/ CompileMatchAny

SpecCompile == InitCompile /\ [][NextCompile]_vars

\* Matching: one route with one pattern, matched against texts.
MatchPatterns ==
    {<<"a">>, <<"A">>, <<"a", "A">>, <<"*">>, <<"4">>,
     <<"a", " ", "{", "i", "d", "}">>, <<"{", "i", "d", "}">>,
     <<"A", "{", "n", "a", "m", "e", "}">>}

TextChars == {"a", "A", " ", "4", "2"}

MatchTexts == UNION {[1..n -> TextChars] : n \in 0..MaxText}

InitMatching ==
    /\ \E pattern \in MatchPatterns :
          routes = <<RoutePattern(<<pattern>>, 50, "message", NoRule)>>
    /\ modules = {1}
    /\ middlewares = << >>
    /\ mwRegs = 0
    /\ lastCall = NoCall
    /\ handlerRuns = [i \in 1..MaxRoutes |-> 0]
    /\ started = FALSE
    /\ wildcards = << >>
    /\ rmu = NoOwner
    /\ rpc = [p \in Callers |-> Idle]
    /\ LimiterIdle
    /\ BusNew

\* One Match call per behaviour: its result depends on the pattern and the
\* text only.
MatchAny == lastCall = NoCall /\ \E text \in MatchTexts : MatchCall(1, text)

NextMatching == MatchAny

SpecMatching == InitMatching /\ [][NextMatching]_vars

\* Async: the event bus alone: events are sent with PublishAsync while the
\* bus is started and stopped, its workers run, and the context given to
\* Start may be cancelled.
SetWorkersAny == \E count \in 0..MaxWorkers : SetWorkers(count)

WorkerSelectAny == \E w \in WorkerIds : WorkerSelect(w)

WorkerPublishAny == \E w \in WorkerIds : WorkerPublish(w)

WorkerDoneAny == \E w \in WorkerIds : WorkerDone(w)

NextAsync ==
    \/ SetWorkersAny
    \/ BusStart
    \/ CtxCancel
    \/ PublishAsync
    \/ WorkerSelectAny
    \/ WorkerPublishAny
    \/ WorkerDoneAny
    \/ BusStopBegin
    \/ BusStopNil
    \/ BusStopTimeout

SpecAsync == InitLife /\ [][NextAsync]_vars

\* The Go scheduler runs every goroutine that can run: a worker that can take
\* a step eventually takes one.
SpecAsyncFair ==
    /\ SpecAsync
    /\ \A w \in WorkerIds :
         WF_vars(WorkerSelect(w)) /\ WF_vars(WorkerPublish(w)) /\ WF_vars(WorkerDone(w))

\* Wild: modules and wildcard modules register on a router that is not
\* started while goroutines call Route.
RegisterWild == \E name \in ModuleNames : RegisterModule(name, LifeRoute, << >>, "ok")

RegisterWildcardWild ==
    \E p \in Callers, name \in ModuleNames, prio \in WildcardPrios, accepts \in BOOLEAN :
        RegisterWildcard(p, name, prio, accepts, LifeRoute)

RouteBeginWild == \E p \in Callers, ctx \in LifeCtxs : RouteBegin(p, ctx)

RouteEndWild == \E p \in Callers : RouteEnd(p)

NextWild == RegisterWild \/ RegisterWildcardWild \/ RouteBeginWild \/ RouteEndWild

SpecWild == InitLife /\ [][NextWild]_vars

\* A Route call that can take the read lock does so.
SpecWildFair == SpecWild /\ \A p \in Callers : WF_vars(RouteEnd(p))

\* Stopping: modules register, the router is started and stopped; the modules
\* stop in any order, any of them may fail to stop, and the event bus may
\* time out.
StopAny ==
    \E order \in ModuleOrders(modules), mfail \in SUBSET modules, bstop \in {"ok", "timeout"} :
        Stop(order, mfail, bstop)

NextStopping == RegisterWild \/ StartLife \/ StopAny

SpecStopping == InitLife /\ [][NextStopping]_vars

\* Bus: subscriptions are made and events published; a subscription may be
\* made while a Publish is in its loop (by a handler of that Publish or by
\* another goroutine).
SubscribeAny == \E topic \in Topics, filter \in Filters : Subscribe(topic, filter)

PublishBeginAny == \E type \in EventTypes : PublishBegin(type)

PublishStepAny == \E outcome \in {"ok", "error", "panic"} : PublishStep(outcome)

NextBus == SubscribeAny \/ PublishBeginAny \/ PublishStepAny \/ PublishEnd

SpecBus == InitLife /\ [][NextBus]_vars

\* Limiter: one RateLimiter of any configuration, goroutines calling Allow
\* concurrently, Reset and GetLimit, and the clock.
InitLimiter ==
    /\ RouterEmpty
    /\ \E n \in 0..MaxRequests, w \in 1..MaxWindow : LimiterNew(n, w)
    /\ BusNew

NextLimiter ==
    \/ \E p \in Procs, u \in Users, c \in Chats : AllowCall(p, u, c)
    \/ \E p \in Procs : AllowLock(p)
    \/ \E p \in Procs : AllowCheck(p)
    \/ \E p \in Procs : AllowIncr(p)
    \/ \E p \in Procs : AllowReturn(p)
    \/ \E u \in Users : Reset(u)
    \/ \E u \in Users : GetLimit(u)
    \/ Tick

SpecLimiter == InitLimiter /\ [][NextLimiter]_vars

----------------------------------------------------------------------------
(* Observations of the last Route call *)

Routed == lastCall.op = "route"

TraceHas(tag, arg) == \E k \in DOMAIN lastCall.trace : lastCall.trace[k] = Ev(tag, arg)

Dispatched == TraceHas("terminal", 0)

RouteIds == 1..Len(routes)

\* Route i's kind filter and pattern accept the request of the last call.
Accepts(i) ==
    /\ MatchType(routes[i], lastCall.ctx)
    /\ Match(routes[i], TextToMatch(lastCall.ctx)).matched

Accepting == {i \in RouteIds : Accepts(i)}

\* The routes whose Execute ran, and those whose handler ran.
Selected == {i \in RouteIds : TraceHas("check", i)}
HandlersRun == {i \in RouteIds : TraceHas("handler", i)}
HandlerPanicked == \E i \in RouteIds : TraceHas("panic", i)

TopAccepting == {i \in Accepting : \A j \in Accepting : routes[i].prio >= routes[j].prio}

MwByReg(r) == CHOOSE m \in {middlewares[k] : k \in DOMAIN middlewares} : m.reg = r

----------------------------------------------------------------------------
(* Claims about dispatch (specification Spec) *)

\* C1: when the routes accepting the request include one of strictly highest
\* priority, Route executes that route and runs its handler and no other,
\* whatever the registration order.
C1_HighestPriorityWins ==
    (Routed /\ Dispatched) =>
        \A i \in Accepting :
            (\A j \in Accepting \ {i} : routes[i].prio > routes[j].prio) =>
                /\ Selected = {i}
                /\ HandlersRun = {i}

\* C1 witness: a route registered later with a higher priority than an
\* earlier accepting route is the one executed.
C1_Witness ==
    /\ Routed
    /\ \E i, j \in Accepting :
          /\ i < j
          /\ routes[i].prio < routes[j].prio
          /\ HandlersRun = {j}
          /\ lastCall.resp = Resp("handler", j)

\* C2: routes are tried in descending priority; the first accepting route is
\* the only one executed and nothing is evaluated after it; of two
\* equal-priority routes of which only the later registered one accepts, the
\* later one's response is returned.
C2_FirstMatchWins ==
    (Routed /\ Dispatched) =>
        LET tr == lastCall.trace
            Tried == {k \in DOMAIN tr : tr[k][1] = "type"}
        IN  /\ \A k, l \in Tried :
                  k < l => routes[tr[k][2]].prio >= routes[tr[l][2]].prio
            /\ \A k \in DOMAIN tr :
                  tr[k][1] = "check" =>
                      /\ \A l \in DOMAIN tr :
                            l > k => /\ tr[l][1] \in {"handler", "panic"}
                                     /\ tr[l][2] = tr[k][2]
                      /\ \A l \in Tried : tr[l][2] # tr[k][2] => ~Accepts(tr[l][2])
            /\ Cardinality(HandlersRun) <= 1
            /\ \A i, j \in RouteIds :
                  (/\ i < j
                   /\ routes[i].prio = routes[j].prio
                   /\ ~Accepts(i)
                   /\ TopAccepting = {j}) =>
                      /\ Selected = {j}
                      /\ lastCall.resp = Resp("handler", j)

\* C2 witness: three routes, the first two of equal priority; the first is
\* tried and rejects the text, the second answers, the third (lower priority,
\* accepting too) is never tried.
C2_Witness ==
    /\ Routed
    /\ Len(routes) = 3
    /\ routes[1].prio = routes[2].prio
    /\ routes[3].prio < routes[2].prio
    /\ TraceHas("match", 1)
    /\ Accepting = {2, 3}
    /\ lastCall.resp = Resp("handler", 2)
    /\ ~TraceHas("type", 3)

\* C3 (as claimed): when several accepting routes share the highest priority,
\* the one registered first is selected.
C3_TieSelectsFirstRegistered ==
    (Routed /\ Dispatched /\ Accepting # {}) =>
        Selected = {CHOOSE i \in TopAccepting : \A j \in TopAccepting : i <= j}

----------------------------------------------------------------------------
(* Claims about the middleware chain (specification SpecChain) *)

\* C4: a middleware that returns without calling next (the auth middleware on
\* an unauthenticated request) ends the call: nothing runs after its entry,
\* neither a lower middleware nor the terminal dispatch nor a handler, and
\* Route returns its response.
C4_ShortCircuit ==
    Routed =>
        \A k \in DOMAIN lastCall.trace :
            (/\ lastCall.trace[k][1] = "mw"
             /\ MwByReg(lastCall.trace[k][2]).kind = "auth"
             /\ ~lastCall.ctx.auth) =>
                /\ Len(lastCall.trace) = k
                /\ ~Dispatched
                /\ HandlersRun = {}
                /\ lastCall.resp = Resp("denied", lastCall.trace[k][2])

\* C4 witness: three middlewares; the first is entered and calls next, the
\* second denies, the third is never entered.
C4_Witness ==
    /\ Routed
    /\ Len(middlewares) = 3
    /\ middlewares[1].kind = "logging"
    /\ middlewares[2].kind = "auth"
    /\ lastCall.trace = <<Ev("mw", middlewares[1].reg), Ev("mw", middlewares[2].reg)>>
    /\ lastCall.resp = Resp("denied", middlewares[2].reg)

\* C5 (as claimed): middlewares are entered from highest to lowest priority,
\* equal priorities in registration order.
C5_EnteredByPriorityThenRegistration ==
    Routed =>
        LET tr == lastCall.trace
            Entered == {k \in DOMAIN tr : tr[k][1] = "mw"}
        IN  \A k, l \in Entered :
                k < l =>
                    LET a == MwByReg(tr[k][2])
                        b == MwByReg(tr[l][2])
                    IN  \/ a.prio > b.prio
                        \/ a.prio = b.prio /\ a.reg < b.reg

\* C6 (as claimed): a panic of the selected handler never leaves Route.
C6_HandlerPanicNeverPropagates ==
    (Routed /\ HandlerPanicked) => lastCall.resp # Panic

HasRecovery == \E k \in DOMAIN middlewares : middlewares[k].kind = "recovery"

\* C6 (amended): with a RecoveryMiddleware registered, at any priority, a
\* panic of the selected handler is turned into the fixed error response.
C6_RecoveryContainsHandlerPanic ==
    (Routed /\ HandlerPanicked /\ HasRecovery) => lastCall.resp = Recovered

\* C6 witness: the handler panicked below a recovery middleware that is not
\* the outermost one, and Route returned the error response.
C6_Witness ==
    /\ Routed
    /\ HandlerPanicked
    /\ Len(middlewares) >= 2
    /\ middlewares[1].kind = "logging"
    /\ middlewares[2].kind = "recovery"
    /\ lastCall.resp = Recovered

----------------------------------------------------------------------------
(* Claims about the rate limiter (specification SpecLimiter) *)

\* The fixed-window reading of a key's call log: the first call opens a
\* window at its time; a call later than the window's end opens a new one.
RECURSIVE WinStart(_, _)
WinStart(log, i) ==
    IF i = 1
    THEN log[1].t
    ELSE LET s == WinStart(log, i - 1)
         IN  IF log[i].t > s + config.Window THEN log[i].t ELSE s

\* The position of call i among the calls of its window.
PosInWindow(log, i) ==
    Cardinality({j \in 1..i : WinStart(log, j) = WinStart(log, i)})

\* No goroutine is between the check and the return of an Allow on the key.
Quiet(key) == \A p \in Procs : local[p].key = key => pc[p] \in {"idle", "lock"}

\* Every returned call of every key answers true exactly when it is among the
\* first Requests calls of its window, and a call that opened a window leaves
\* the counter at count 1, reset time = its time + Window.
WindowDiscipline ==
    \A key \in Keys :
        LET log == calls[key]
            n == Len(log)
        IN  /\ \A i \in 1..n : log[i].ret = (PosInWindow(log, i) <= config.Requests)
            /\ (n > 0 /\ Quiet(key) /\ PosInWindow(log, n) = 1) =>
                   counters[key] = [exists |-> TRUE, Count |-> 1,
                                    ResetAt |-> log[n].t + config.Window]

\* C7 (as claimed): for any maximum N >= 0, N calls in a window return true,
\* the next one false, the first call after the window true with count 1.
C7_WindowQuotaAnyMax == WindowDiscipline

\* C7 (amended): the same for any maximum N >= 1.
C7_WindowQuota == config.Requests >= 1 => WindowDiscipline

\* C7 witness: maximum 2; two calls allowed, the third in the same window
\* denied, the fourth after the window allowed with a fresh counter.
C7_Witness ==
    \E key \in Keys :
        /\ config.Requests = 2
        /\ Len(calls[key]) = 4
        /\ [i \in 1..4 |-> calls[key][i].ret] = <<TRUE, TRUE, FALSE, TRUE>>
        /\ calls[key][3].t <= calls[key][1].t + config.Window
        /\ calls[key][4].t > calls[key][1].t + config.Window
        /\ Quiet(key)
        /\ counters[key].Count = 1
        /\ counters[key].ResetAt = calls[key][4].t + config.Window

\* C8: with a maximum of at least 1, at most one goroutine is between the
\* lock and the unlock of Allow, the stored count never exceeds the maximum,
\* and the calls that returned true within the stored window of a key never
\* outnumber the maximum.
C8_NoOverQuotaUnderConcurrency ==
    config.Requests >= 1 =>
        /\ Cardinality({p \in Procs : pc[p] \in {"check", "incr", "unlock"}}) <= 1
        /\ \A key \in Keys :
              counters[key].exists =>
                  /\ counters[key].Count <= config.Requests
                  /\ Cardinality({i \in DOMAIN calls[key] :
                        /\ calls[key][i].ret
                        /\ calls[key][i].t >= counters[key].ResetAt - config.Window
                        /\ calls[key][i].t <= counters[key].ResetAt}) <= config.Requests

\* C8 witness: one goroutine is about to take the last slot of a key's window
\* while another one waits for the lock with a request for the same key.
C8_Witness ==
    \E p, q \in Procs :
        /\ p # q
        /\ pc[p] = "incr"
        /\ pc[q] = "lock"
        /\ local[p].key = local[q].key
        /\ counters[local[p].key].Count + 1 = config.Requests

\* C9 (as claimed): GetLimit(u) reports the counter Allow keeps for user u,
\* and after Reset(u) no counter of user u is left, so that the next Allow
\* opens a window.
C9_ResetAndGetLimitUseAllowCounter ==
    /\ lastOp.op = "getlimit" =>
          \A c \in Chats :
              LET k == counters[AllowKey(lastOp.user, c)]
              IN  k.exists => /\ lastOp.current = k.Count
                              /\ lastOp.max = config.Requests
                              /\ lastOp.resetAt = k.ResetAt
    /\ lastOp.op = "reset" =>
          \A c \in Chats : ~counters[AllowKey(lastOp.user, c)].exists

----------------------------------------------------------------------------
(* Claims about rate-limited routes (specification SpecRated) *)

\* C10 (as claimed): the handler of a route whose security rule carries a
\* rate limit of n requests per window runs at most n times for one user and
\* chat at one instant, hence within one window.
C10_RouteRateLimitEnforced ==
    \A i \in RouteIds :
        routes[i].sec.RateLimit.set =>
            handlerRuns[i] <= routes[i].sec.RateLimit.Requests

----------------------------------------------------------------------------
(* Claims about the security rule (specification SpecSecure) *)

\* The conditions of a rule in the order authentication, profile, roles,
\* permissions, sources, validator: whether condition k fails for the
\* context, and the text of the error it is reported with.
CondFails(rule, ctx, k) ==
    CASE k = 1 -> rule.RequireAuth /\ ~ctx.auth
      [] k = 2 -> rule.RequireProfile /\ ~ctx.profile
      [] k = 3 -> /\ rule.RequireRoles # {}
                  /\ \A r \in rule.RequireRoles : r \notin ctx.roles
      [] k = 4 -> \E j \in DOMAIN rule.RequirePermissions :
                     rule.RequirePermissions[j] \notin ctx.perms
      [] k = 5 -> rule.AllowedSources # {} /\ ctx.source \notin rule.AllowedSources
      [] OTHER -> rule.Validate = "fail"

CondText ==
    <<"authentication required", "profile required", "insufficient role",
      "insufficient permission", "source not allowed", "validator error">>

FailingConds(rule, ctx) == {k \in DOMAIN CondText : CondFails(rule, ctx, k)}

Earliest(ks) == CHOOSE k \in ks : \A j \in ks : k <= j

\* C11: the security check of the executed route reports the earliest failing
\* condition in the order authentication, profile, roles (any of), permissions
\* (all of), sources, validator, and succeeds (the handler runs) exactly when
\* no condition fails.
C11_CheckReportsEarliestFailure ==
    Routed =>
        \A i \in Selected :
            LET failing == FailingConds(routes[i].sec, lastCall.ctx)
            IN  IF failing = {}
                THEN TraceHas("handler", i)
                ELSE /\ ~TraceHas("handler", i)
                     /\ lastCall.resp.kind = "message"
                     /\ lastCall.resp.arg[2] = CondText[Earliest(failing)]

\* A call where the profile, a permission and the source fail together and
\* the profile is the one reported.
C11_Witness ==
    /\ Routed
    /\ Selected = {1}
    /\ FailingConds(routes[1].sec, lastCall.ctx) = {2, 4, 5}
    /\ lastCall.resp.arg[2] = "profile required"

\* C12: when the security check of the executed route fails, the response of
\* Route is the one HandleFailure chooses: the rule's OnFailure handler's if
\* set, else the default message of the failure reason.
C12_FailureHandlerChoosesResponse ==
    Routed =>
        \A i \in Selected :
            LET err == Check(routes[i].sec, lastCall.ctx)
            IN  err # NilErr =>
                    lastCall.resp = HandleFailure(routes[i].sec, lastCall.ctx, err)

----------------------------------------------------------------------------
(* Claims about wildcard modules (specifications SpecWild, SpecWildFair) *)

\* The wildcard modules passed to RegisterWildcard on a router not started:
\* those in Router.wildcards and those whose call has not returned.
WildcardsInList == {wildcards[k] : k \in DOMAIN wildcards}
WildcardsRequested ==
    WildcardsInList \cup {rpc[q].module : q \in {c \in Callers : rpc[c].at = "RegisterModule"}}

AcceptingWildcards == {m \in WildcardsRequested : m.accepts}

TopWildcards == {m \in AcceptingWildcards : \A n \in AcceptingWildcards : m.prio >= n.prio}

\* C13: a Route call for a request no route accepts (the text "b"), made when wildcard
\* modules that accept it were passed to RegisterWildcard, returns the
\* HandleWildcard result of the accepting module of highest priority.
C13_WildcardAnswersUnmatched ==
    \A p \in Callers :
        (rpc[p].at = "Route" /\ rpc[p].ctx.text = <<"b">> /\ AcceptingWildcards # {})
            ~> (/\ Routed
                /\ lastCall.resp.kind = "wildcard"
                /\ lastCall.resp.arg \in {m.name : m \in TopWildcards})

\* C14: a goroutine in RegisterWildcard never waits for a lock it holds itself.
C14_RegisterWildcardNeverBlocksOnOwnLock ==
    \A p \in Callers : rpc[p].at = "RegisterModule" => rmu # p

----------------------------------------------------------------------------
(* Claims about the started router (specification SpecLife) *)

\* C16: while the router is started, RegisterModule and RegisterWildcard
\* return an error and leave the modules, the routes, the wildcard handlers
\* and the event subscriptions unchanged.
C16_RegistrationRejectedWhileStarted ==
    [][(started /\ (RegisterLife \/ RegisterWildcardLife))
        => /\ lastCall'.resp.kind = "error"
           /\ UNCHANGED <<modules, routes, wildcards, subscribers>>]_vars

\* A started router that has answered a RegisterWildcard with the error, and
\* one that has answered a RegisterModule.
C16_Witness ==
    /\ started
    /\ modules # {}
    /\ lastCall \in {Returned("RegisterWildcard", "error", "started"),
                     Returned("RegisterModule", "error", "started")}

\* C17: while the router is started, RegisterMiddleware leaves the middleware
\* list unchanged.
C17_MiddlewareRejectedWhileStarted ==
    [][(started /\ RegisterMiddlewareLife) => UNCHANGED middlewares]_vars

----------------------------------------------------------------------------
(* Claims about the event bus (specification SpecBus) *)

\* Of the last Publish that returned: the subscriptions under the event's
\* type and under the wildcard topic when Publish read them, their filters
\* applied, as lists of registration numbers.
RECURSIVE PassingIds(_, _)
PassingIds(subs, i) ==
    IF i > Len(subs) THEN << >>
    ELSE IF subs[i].filter = "reject" THEN PassingIds(subs, i + 1)
    ELSE <<subs[i].id>> \o PassingIds(subs, i + 1)

TopicIds == PassingIds(pubDone.topicSnap, 1)
WildcardIds == PassingIds(pubDone.wildSnap, 1)
MatchingIds == {TopicIds[k] : k \in DOMAIN TopicIds} \cup {WildcardIds[k] : k \in DOMAIN WildcardIds}

\* How often subscription id was invoked by that Publish.
Invocations(id) == Cardinality({k \in DOMAIN pubDone.invoked : pubDone.invoked[k] = id})

\* C18: a Publish invokes each subscription under the event's type and each
\* under the wildcard topic (whose filter does not reject the event) exactly
\* once, and no other subscription.
C18_EachMatchingSubscriptionOnce ==
    pubDone.returned =>
        \A id \in 1..MaxSubs : Invocations(id) = IF id \in MatchingIds THEN 1 ELSE 0

\* C19: whatever subscribers fail, every matching subscription is invoked, and
\* Publish returns nil when none failed and otherwise an error whose count is
\* the number of subscribers that failed.
C19_FailuresIsolatedAndCounted ==
    pubDone.returned =>
        /\ \A id \in MatchingIds : Invocations(id) >= 1
        /\ pubDone.errors = Cardinality(pubDone.failed)

\* C20: a Publish invokes the subscribers of the event's type in the order
\* they subscribed, then those of the wildcard topic in the order they
\* subscribed.
C20_TopicThenWildcardInOrder ==
    pubDone.returned => pubDone.invoked = TopicIds \o WildcardIds

----------------------------------------------------------------------------
(* Claims about the asynchronous event bus (specification SpecAsync) *)

\* How many PublishAsync calls had the given fate.
Fated(fates) == Cardinality({i \in DOMAIN alog.fate : alog.fate[i] \in fates})

\* The fate of call id, "none" when the call was not made.
FateOf(id) == IF id \in DOMAIN alog.fate THEN alog.fate[id] ELSE "none"

\* No worker has taken an event off the queue.
NothingDequeued ==
    /\ alog.delivered = << >>
    /\ \A w \in WorkerIds : workers[w].at \notin {"dequeued", "handling"}

\* The PublishAsync calls made on the started bus.
CallsWhileStarted == Fated({"queued", "dropped", "panic"})

Min(a, b) == IF a <= b THEN a ELSE b
Max(a, b) == IF a >= b THEN a ELSE b

\* C21: PublishAsync never blocks: on a started bus that was not stopped and
\* whose workers have dequeued nothing, after k calls the queue holds
\* min(k, capacity) events and max(0, k - capacity) calls were answered with
\* a drop signal; a further call can always be made.
C21_QueueHoldsFirstCapacityEvents ==
    /\ (busStarted /\ ~alog.stopCalled /\ NothingDequeued) =>
          /\ Len(queue.items) = Min(CallsWhileStarted, QueueCap)
          /\ Fated({"dropped"}) = Max(0, CallsWhileStarted - QueueCap)
    /\ (Running /\ alog.sent < MaxAsync) => ENABLED PublishAsync

C21_Witness ==
    /\ busStarted /\ ~alog.stopCalled /\ NothingDequeued
    /\ Len(queue.items) = QueueCap
    /\ Fated({"dropped"}) = 1
    /\ CallsWhileStarted = QueueCap + 1

\* C22: a PublishAsync call on a bus that was never started, or made after a
\* Stop call returned (nil or the timeout error), enqueues nothing, is
\* answered with a drop signal and does not fault.
C22_NoOpBeforeStartAndAfterStop ==
    [][(PublishAsync /\ (~alog.everStarted \/ alog.stopReturned)) =>
          /\ queue' = queue
          /\ alog'.delivered = alog.delivered
          /\ alog'.fate[alog'.sent] \in {"not started", "dropped"}
          /\ alog'.fault = "none"]_vars

\* How often event id was delivered: its Publish was run by a worker.
Deliveries(id) == Cardinality({k \in DOMAIN alog.delivered : alog.delivered[k] = id})

\* Event id sits in the queue or with a worker that took it.
Pending(id) ==
    \/ \E k \in DOMAIN queue.items : queue.items[k] = id
    \/ \E w \in WorkerIds : workers[w].at \in {"dequeued", "handling"} /\ workers[w].ev = id

\* C23 as stated: while the bus is started with at least one worker and Stop
\* is not called, every event PublishAsync enqueued is eventually delivered
\* by a worker, and no event is delivered twice.
C23_QueuedEventuallyDelivered ==
    /\ \A id \in 1..MaxAsync :
          (FateOf(id) = "queued" /\ bctl.count >= 1)
             ~> (Deliveries(id) = 1 \/ alog.stopCalled)
    /\ [](\A id \in 1..MaxAsync : Deliveries(id) <= 1)

\* C23 amended: the same, as long as the context given to Start is not
\* cancelled either: a cancelled context makes the workers return.
C23_QueuedEventuallyDeliveredUnlessCancelled ==
    /\ \A id \in 1..MaxAsync :
          (FateOf(id) = "queued" /\ bctl.count >= 1)
             ~> (Deliveries(id) = 1 \/ alog.stopCalled \/ bctl.ctx = "cancelled")
    /\ [](\A id \in 1..MaxAsync : Deliveries(id) <= 1)

C23_Witness ==
    /\ ~alog.stopCalled
    /\ bctl.ctx = "live"
    /\ FateOf(MaxAsync) = "queued"
    /\ \A id \in 1..MaxAsync : Deliveries(id) = 1

\* C24: when Stop returns nil on a bus started with at least one worker,
\* every event sent through PublishAsync before that Stop was called has been
\* delivered by a worker or was answered with a drop signal; none is left
\* in the queue.
C24_NothingLostBySuccessfulStop ==
    [][(BusStopNil /\ bctl.count >= 1) =>
          \A id \in 1..alog.beforeStop :
             /\ Deliveries(id) = 1 \/ FateOf(id) \in {"not started", "dropped"}
             /\ ~Pending(id)]_vars

\* C25: a Stop call on a started bus returns instead of faulting, and it
\* returns nil only when every worker has returned: never while a worker
\* holds or handles an event.
C25_StopReturnsNilOnlyAfterWorkersExit ==
    [][/\ (BusStopBegin /\ busStarted) => alog'.stopResult # "panic"
       /\ BusStopNil => WorkersExited(workers)]_vars

\* C26: stopped is terminal: once a Stop returned nil, no later Start brings
\* back a started bus whose workers deliver events from the queue.
C26_StoppedIsTerminal ==
    [][(alog.stoppedOk /\ busStarted) => alog'.delivered = alog.delivered]_vars

\* C27: over any sequence of Stop calls the context is cancelled once and the
\* queue closed once, and no Stop faults.
C27_CancelAndCloseExactlyOnce ==
    /\ alog.stopCalled => (alog.cancels = 1 /\ alog.closes = 1)
    /\ alog.stopResult # "panic"

----------------------------------------------------------------------------
(* Claims about Router.Stop (specification SpecStopping) *)

\* The calls the last Router.Stop made, when it found the router started.
StopTrace == IF lastCall.op = "Stop" THEN lastCall.trace ELSE << >>

\* C29: Router.Stop stops the event bus before the modules: no module's Stop
\* is called before the Stop of the event bus.
C29_BusStoppedBeforeModules ==
    \A i, j \in DOMAIN StopTrace :
        (StopTrace[i][1] = "module.Stop" /\ StopTrace[j][1] = "bus.Stop") => j < i

\* C30: when the Stop of a module or of the event bus fails, Router.Stop
\* still calls Stop of every module and of the event bus, and it returns a
\* failure; it returns nil only when nothing failed.
C30_StopsAllAndReturnsFirstFailure ==
    StopTrace # << >> =>
        /\ \A m \in modules :
              \E i \in DOMAIN StopTrace :
                 StopTrace[i][1] = "module.Stop" /\ StopTrace[i][2].name = m
        /\ \E i \in DOMAIN StopTrace : StopTrace[i][1] = "bus.Stop"
        /\ lastCall.resp.kind = "nil" <=>
              \A i \in DOMAIN StopTrace : StopTrace[i][2].err = "nil"
        /\ lastCall.resp.kind \in {"nil", "error"}

----------------------------------------------------------------------------
(* Claims about concurrent first use (specification SpecCompile) *)

\* Goroutine p is inside Compile for a route: it has emptied the list of the
\* route and not yet set the route's flag.
WritingRoute(p) == IF rpc[p].at \in {"append", "flag"} THEN rpc[p].i ELSE 0

\* The routes as registered, before any compilation.
Uncompiled(rs) == [i \in 1..Len(rs) |-> [rs[i] EXCEPT !.compiled = << >>, !.isCompiled = FALSE]]

\* What a Route call for ctx returns when it runs alone on the router.
AloneOutcomes(ctx) ==
    {RouteInternal(compileRoutesOnce(Uncompiled(routes)), wildcards, order, ctx, "ok") :
        order \in SortSlice(routes)}

\* Route i holds a list that is neither empty nor the compiled patterns.
PartlyCompiled(i) ==
    routes[i].compiled # << >> /\ routes[i].compiled # Compile(routes[i].patterns)

C28_NoTwoWriters ==
    \A p, q \in Callers : (p # q /\ WritingRoute(p) # 0) => WritingRoute(p) # WritingRoute(q)

C28_NoPartialListMatched ==
    \A p \in Callers : rpc[p].at = "match" => \A i \in 1..Len(routes) : ~PartlyCompiled(i)

C28_SameAsAlone ==
    lastCall.op = "route" =>
        [trace |-> lastCall.trace, resp |-> lastCall.resp] \in AloneOutcomes(lastCall.ctx)

\* C28: when Route calls run at the same time on routes not yet compiled, no
\* two of them write the compiled state of one route at the same time, none
\* matches against a partly compiled list, and each returns what it would
\* return running alone.
C28_CompileOnceUnderConcurrentFirstUse ==
    /\ C28_NoTwoWriters
    /\ C28_NoPartialListMatched
    /\ C28_SameAsAlone

----------------------------------------------------------------------------
(* Claims about pattern matching (specification SpecMatching) *)

\* The pattern and the text of the Match call made, and its result.
MatchedPattern == routes[1].patterns[1]
MatchedText == lastCall.ctx.text
MatchResult == lastCall.resp.arg

IdPlaceholder == <<"{", "i", "d", "}">>

\* A text without braces, asterisks or blanks at its ends.
PlainLiteral(s) ==
    /\ s # << >>
    /\ \A k \in DOMAIN s : s[k] \notin MetaChars
    /\ s[1] # " " /\ s[Len(s)] # " "

\* The pattern is lit followed by {id}, the text lit followed by digits.
LiteralThenId(lit, digits) ==
    /\ lit # << >>
    /\ MatchedPattern = lit \o IdPlaceholder
    /\ MatchedText = lit \o digits
    /\ \A k \in DOMAIN lit : lit[k] \notin MetaChars /\ lit[k] = ToLowerChar(lit[k])
    /\ digits # << >>
    /\ \A k \in DOMAIN digits : digits[k] \in Digits

Prefixes(s) == {SubSeq(s, 1, k) : k \in 0..Len(s)}
Suffixes(s) == {SubSeq(s, k + 1, Len(s)) : k \in 0..Len(s)}

\* C31: a pattern made of a literal and {id}, matched against the literal
\* followed by digits, matches and binds id to those digits; the pattern "*"
\* matches every non-empty text with an empty parameter map.
C31_PlaceholderBindsDigits ==
    lastCall.op = "match" =>
        /\ \A lit \in Prefixes(MatchedText), digits \in Suffixes(MatchedText) :
              LiteralThenId(lit, digits) =>
                  (MatchResult.matched /\ <<"id", digits>> \in MatchResult.params)
        /\ (MatchedPattern = <<"*">> /\ MatchedText # << >>) =>
              (MatchResult.matched /\ MatchResult.params = {})

\* C32: a plain literal pattern matches a text exactly when the text, its
\* surrounding blanks removed, equals the pattern up to letter case.
C32_LiteralMatchIgnoresCase ==
    (lastCall.op = "match" /\ PlainLiteral(MatchedPattern)) =>
        (MatchResult.matched <=>
            ToLower(TrimSpace(MatchedText)) = ToLower(MatchedPattern))

----------------------------------------------------------------------------
(* Claims about the order of the steps of dispatch (specification SpecSecure) *)

\* The positions of the event in the trace of the last Route call.
Positions(ev) == {k \in DOMAIN lastCall.trace : lastCall.trace[k] = ev}

\* C33: for the route dispatch selected, the parameters are set in the
\* context, then the security rule is checked, then the handler runs; the
\* handler does not run for a request whose check failed.
C33_ParamsThenCheckThenHandler ==
    lastCall.op = "route" =>
        \A i \in RouteIds :
            /\ \A c \in Positions(Ev("check", i)) :
                  \E p \in Positions(Ev("params", i)) : p < c
            /\ \A h \in Positions(Ev("handler", i)) :
                  /\ \E c \in Positions(Ev("check", i)) : c < h
                  /\ Check(routes[i].sec, lastCall.ctx) = NilErr

C33_Witness ==
    /\ lastCall.op = "route"
    /\ routes[1].sec.RequireAuth
    /\ routes[1].sec.RequirePermissions # << >>
    /\ Positions(Ev("handler", 1)) # {}
    /\ Positions(Ev("params", 1)) # {}

----------------------------------------------------------------------------
(* Claims about faults below the recovery middleware (specification SpecChain) *)

\* A recovery middleware is registered whose priority is strictly higher
\* than that of every other middleware.
RecoveryOutermost ==
    \E k \in DOMAIN middlewares :
        /\ middlewares[k].kind = "recovery"
        /\ \A l \in DOMAIN middlewares \ {k} : middlewares[k].prio > middlewares[l].prio

\* A middleware of the last Route call raised a fault of its own.
MiddlewarePanicked ==
    \E k \in DOMAIN middlewares :
        /\ middlewares[k].kind = "faulty"
        /\ Positions(Ev("mw", middlewares[k].reg)) # {}

\* C34: with the recovery middleware at a priority strictly above every other
\* middleware, no fault of a handler or of another middleware leaves Route:
\* Route returns the fixed error message for each, and the router's lock is
\* free afterwards.
C34_OutermostRecoveryContainsEveryPanic ==
    (Routed /\ RecoveryOutermost) =>
        /\ lastCall.resp # Panic
        /\ (HandlerPanicked \/ MiddlewarePanicked) => lastCall.resp = Recovered
        /\ RouterLockFree(rmu)

C34_Witness ==
    /\ Routed
    /\ RecoveryOutermost
    /\ MiddlewarePanicked
    /\ lastCall.resp = Recovered

----------------------------------------------------------------------------
(* Claims about the metrics middleware (specification SpecMetered) *)

\* C35: every request a metrics middleware processes is counted and has its
\* duration recorded, whatever the chain below it does: a response, a denial
\* or a fault of the handler.
C35_MetricsRecordedForEveryRequest ==
    Routed =>
        \A k \in DOMAIN middlewares :
            (middlewares[k].kind = "metrics" /\ TraceHas("mw", middlewares[k].reg)) =>
                /\ TraceHas("counter", middlewares[k].reg)
                /\ TraceHas("timing", middlewares[k].reg)

----------------------------------------------------------------------------
(* Claims about Stop racing with workers and publishers (specification SpecAsync) *)

\* A worker that has taken an event off the queue and now needs the read
\* lock of Publish while Stop holds the write lock.
WorkerWaitsForLock(w) ==
    /\ workers[w].at = "dequeued"
    /\ ~BusLockFree

\* C36: Stop never waits for a worker that, having dequeued an event, waits
\* for the bus lock Stop holds; so a Stop whose context never expires
\* returns nil.
C36_StopNeverWaitsForBlockedWorker ==
    ~(/\ bctl.stop = "waiting"
      /\ bctl.mu = "Stop"
      /\ \E w \in WorkerIds : WorkerWaitsForLock(w))

\* C37: while a Stop is in progress PublishAsync never sends on the queue
\* Stop has closed: the racing event is enqueued before the close or dropped.
C37_PublishAsyncNeverSendsOnClosedQueue ==
    ~(/\ alog.stopCalled
      /\ bctl.stop = "waiting"
      /\ queue.closed
      /\ alog.fault = "send on closed channel")

----------------------------------------------------------------------------
(* Claims about Publish racing with Subscribe (specification SpecBus) *)

\* The list the Publish in progress iterates, as its loop would read it now.
PubList ==
    [k \in 1..pub.len |->
        IF pub.shared # "" THEN subscribers[pub.shared].array[k] ELSE pub.array[k]]

\* C38: the list a Publish iterates is a private snapshot: whatever Subscribe
\* calls run meanwhile, it stays the topic's subscriptions followed by the
\* wildcard subscriptions as they were when Publish read them, and each of
\* them (its filter passing) is invoked exactly once.
C38_PublishIteratesPrivateSnapshot ==
    /\ pub.active => PubList = pub.topicSnap \o pub.wildSnap
    /\ (pubDone.returned /\ pubDone.type # WildcardTopic) =>
           \A id \in MatchingIds : Invocations(id) = 1

----------------------------------------------------------------------------
(* SecurityMiddleware (routing/security.go) *)

\* NewSecurityMiddleware(rule): priority 100; the limiter exists when the
\* rule has a RateLimit.
SecurityMiddleware(rule) == [kind |-> "security", prio |-> 100, reg |-> 1, rule |-> rule]

\* RateLimiter.Allow between Lock and the deferred Unlock, as one step: the
\* counters afterwards and the answer.
Allow(cs, cfg, key, t) ==
    LET c == cs[key]
    IN  IF ~c.exists \/ Expired(t, c.ResetAt)
        THEN [counters |-> [cs EXCEPT ![key] =
                                [exists |-> TRUE, Count |-> 1, ResetAt |-> t + cfg.Window]],
              ret |-> TRUE]
        ELSE IF OverQuota(c.Count, cfg.Requests)
        THEN [counters |-> cs, ret |-> FALSE]
        ELSE [counters |-> [cs EXCEPT ![key].Count = @ + 1], ret |-> TRUE]

\* Process with the rule's checks made before the limiter is asked.
ProcessSecurityCheckFirst(mw, ctx, cs, cfg, t, nout) ==
    LET err == Check(mw.rule, ctx)
        al == IF mw.rule.RateLimit.set /\ err = NilErr
              THEN Allow(cs, cfg, AllowKey(ctx.user, ctx.chat), t)
              ELSE [counters |-> cs, ret |-> TRUE]
    IN  IF err # NilErr
        THEN [counters |-> cs, asked |-> FALSE, ret |-> TRUE,
              trace |-> <<Ev("check", 0)>>, resp |-> HandleFailure(mw.rule, ctx, err)]
        ELSE IF ~al.ret
        THEN [counters |-> al.counters, asked |-> TRUE, ret |-> FALSE,
              trace |-> <<Ev("check", 1), Ev("allow", 0)>>,
              resp |-> HandleFailure(mw.rule, ctx, Err("ErrRateLimitExceeded", ""))]
        ELSE [counters |-> al.counters, asked |-> mw.rule.RateLimit.set, ret |-> TRUE,
              trace |-> <<Ev("check", 1), Ev("allow", 1), Ev("next", 1)>>, resp |-> nout]

\* SecurityMiddleware.Process: the limiter, if there is one, then the rule's
\* Check, then next.  nout is the response of next.  The trace records
\* Ev("allow", 1 or 0) for the limiter's answer and Ev("check", 1 or 0) for
\* a passed or failed Check.
ProcessSecurity(mw, ctx, cs, cfg, t, nout) ==
    LET limited == mw.rule.RateLimit.set
        al == IF limited
              THEN Allow(cs, cfg, AllowKey(ctx.user, ctx.chat), t)
              ELSE [counters |-> cs, ret |-> TRUE]
        asked == IF limited THEN <<Ev("allow", IF al.ret THEN 1 ELSE 0)>> ELSE << >>
        err == Check(mw.rule, ctx)
    IN  IF ~al.ret
        THEN [counters |-> al.counters, asked |-> limited, ret |-> FALSE,
              trace |-> asked,
              resp |-> HandleFailure(mw.rule, ctx, Err("ErrRateLimitExceeded", ""))]
        ELSE IF err # NilErr
        THEN [counters |-> al.counters, asked |-> limited, ret |-> TRUE,
              trace |-> asked \o <<Ev("check", 0)>>,
              resp |-> HandleFailure(mw.rule, ctx, err)]
        ELSE [counters |-> al.counters, asked |-> limited, ret |-> TRUE,
              trace |-> asked \o <<Ev("check", 1), Ev("next", 1)>>,
              resp |-> nout]

\* A request handed to the security middleware of the router's list.
SecurityMiddlewareProcess(ctx) ==
    /\ CallsMade < MaxCalls
    /\ LET r == ProcessSecurity(middlewares[1], ctx, counters, config, now, Resp("handler", 1))
           key == AllowKey(ctx.user, ctx.chat)
       IN  /\ counters' = r.counters
           /\ calls' = IF r.asked
                       THEN [calls EXCEPT ![key] = Append(@, [t |-> now, ret |-> r.ret])]
                       ELSE calls
           /\ lastCall' = [op |-> "process", ctx |-> ctx, trace |-> r.trace, resp |-> r.resp]
    /\ UNCHANGED <<config, mu, now, pc, local, lastOp>>
    /\ UNCHANGED <<modules, routes, middlewares, mwRegs, handlerRuns>>
    /\ UNCHANGED lifeVars
    /\ UNCHANGED busVars

\* Guarded: one security middleware under a rule with or without a rate
\* limit and with or without the authentication requirement; requests of
\* two users, authenticated or not; the clock.
GuardRules ==
    {[NoRule EXCEPT !.RequireAuth = a, !.OnFailure = f, !.RateLimit = rl] :
        a \in BOOLEAN, f \in {"nil", "custom"},
        rl \in {NoRateLimit}
                 \cup {[set |-> TRUE, Requests |-> n, Window |-> w] :
                          n \in 0..MaxRequests, w \in 1..MaxWindow}}

GuardCtxs ==
    {[Ctx(<<"a">>, "command", << >>, a) EXCEPT !.user = u, !.chat = c] :
        a \in BOOLEAN, u \in Users, c \in Chats}

InitGuard ==
    /\ \E rule \in GuardRules :
          /\ middlewares = <<SecurityMiddleware(rule)>>
          /\ IF rule.RateLimit.set
             THEN LimiterNew(rule.RateLimit.Requests, rule.RateLimit.Window)
             ELSE LimiterIdle
    /\ modules = {}
    /\ routes = << >>
    /\ mwRegs = 1
    /\ lastCall = NoCall
    /\ handlerRuns = [i \in 1..MaxRoutes |-> 0]
    /\ started = FALSE
    /\ wildcards = << >>
    /\ rmu = NoOwner
    /\ rpc = [p \in Callers |-> Idle]
    /\ BusNew

ProcessGuard == \E ctx \in GuardCtxs : SecurityMiddlewareProcess(ctx)

NextGuard == ProcessGuard \/ Tick

SpecGuard == InitGuard /\ [][NextGuard]_vars

----------------------------------------------------------------------------
(* Claims about the security middleware (specification SpecGuard) *)

GuardRule == middlewares[1].rule

\* The events of the given tag in a trace.
Tagged(trace, tag) == {k \in DOMAIN trace : trace[k][1] = tag}

\* C39: Process asks its rate limiter before the rule's checks.  Every
\* request within quota counts against the (user, chat) counter of the
\* current window, also when Check then denies it; a request over quota is
\* denied with the rate-limit reason and Check is not evaluated.
C39_RateLimiterBeforeCheck ==
    [][(now' = now /\ GuardRule.RateLimit.set) =>
          LET ctx == lastCall'.ctx
              key == AllowKey(ctx.user, ctx.chat)
              c == counters[key]
              fresh == ~c.exists \/ Expired(now, c.ResetAt)
              over == ~fresh /\ OverQuota(c.Count, config.Requests)
              trace == lastCall'.trace
          IN  /\ over =>
                    /\ lastCall'.resp =
                          HandleFailure(GuardRule, ctx, Err("ErrRateLimitExceeded", ""))
                    /\ Tagged(trace, "check") = {}
                    /\ Tagged(trace, "next") = {}
                    /\ counters' = counters
              /\ ~over =>
                    /\ counters'[key].Count = IF fresh THEN 1 ELSE c.Count + 1
                    /\ \A k \in Tagged(trace, "check") :
                          \E a \in Tagged(trace, "allow") : a < k
                    /\ Tagged(trace, "check") # {}
                    /\ Check(GuardRule, ctx) # NilErr =>
                          /\ lastCall'.resp =
                                HandleFailure(GuardRule, ctx, Check(GuardRule, ctx))
                          /\ Tagged(trace, "next") = {}]_vars

\* A request that Check would deny was counted, and the next one of the same
\* user is denied for the rate limit.
C39_Witness ==
    /\ lastCall.op = "process"
    /\ GuardRule.RateLimit.set
    /\ GuardRule.RequireAuth
    /\ ~lastCall.ctx.auth
    /\ lastCall.resp = HandleFailure(GuardRule, lastCall.ctx, Err("ErrRateLimitExceeded", ""))
    /\ LET log == calls[AllowKey(lastCall.ctx.user, lastCall.ctx.chat)]
       IN  /\ Len(log) >= 2
           /\ log[1].ret
           /\ ~log[Len(log)].ret

----------------------------------------------------------------------------
(* Registration with failing modules (RegisterModule of router.go) *)

\* Registering: modules whose Init may fail and whose event subscriptions
\* may carry a nil handler register; the router is started; requests are
\* routed.
RegisteringEvents ==
    {<< >>,
     <<EventSubscription("t", "set")>>,
     <<EventSubscription("t", "nil")>>,
     <<EventSubscription("t", "set"), EventSubscription("t", "nil")>>}

RegisterRegistering ==
    \E name \in ModuleNames, events \in RegisteringEvents, minit \in {"ok", "fail"} :
        RegisterModule(name, LifeRoute, events, minit)

NextRegistering == RegisterRegistering \/ StartLife \/ RouteLife

SpecRegistering == InitLife /\ [][NextRegistering]_vars

\* C40: a RegisterModule call that returns an error leaves the module map
\* and the route list as they were.
C40_FailedRegistrationChangesNothing ==
    [][(RegisterRegistering /\ lastCall'.resp.kind = "error")
        => UNCHANGED <<modules, routes>>]_vars



====
